---- MODULE Spec2Model ----
(***************************************************************************)
(* A model of the chat-rooms backend (src/unnamed/part_007): the token     *)
(* store and its handlers, room membership and presence, all acting on one *)
(* shared key-value store.  A request handler is a sequence of store       *)
(* commands; every command is one step of a request frame.  Spec runs the  *)
(* handlers one request at a time, TimedSpec lets time pass between the    *)
(* requests, and ConcSpec interleaves the commands of several requests.    *)
(*                                                                         *)
(* Time is counted in seconds (the code's Date.now() is in milliseconds    *)
(* and multiplies its second-valued constants by 1000 where it mixes the   *)
(* two; one unit serves here for both).                                    *)
(***************************************************************************)
EXTENDS Integers, Sequences, FiniteSets, TLC

VARIABLES redis, now, nextTok, nextRoom, inflight, hist, hook

vars == <<redis, now, nextTok, nextRoom, inflight, hist, hook>>

None == "none"

\* ------------------------------------------------------------------------
\* Program constants
\* ------------------------------------------------------------------------
USER_TTL_SECONDS == 7776000

USER_EXPIRATION_TIME == 7776000

TOKEN_GRACE_PERIOD == 86400 * 365

ROOM_PRESENCE_TTL_SECONDS == 86400

MAX_MESSAGE_LENGTH == 1000

RATE_LIMIT_WINDOW_SECONDS == 60

RATE_LIMIT_ATTEMPTS == 10

CHAT_BURST_SHORT_WINDOW_SECONDS == 10

CHAT_BURST_SHORT_LIMIT == 3

CHAT_BURST_LONG_WINDOW_SECONDS == 60

CHAT_BURST_LONG_LIMIT == 20

CHAT_MIN_INTERVAL_SECONDS == 2

\* ltrim(key, 0, 99): the messages a room keeps.
MESSAGES_KEPT == 100

\* ------------------------------------------------------------------------
\* Bounds of the model
\* ------------------------------------------------------------------------
\* Tokens the random generator hands out in one behaviour.
MaxTokens == 3

\* Clock ticks in one behaviour, and the lengths a tick may have.
MaxTicks == 2

ShortTick == 3888000

\* Under RoomSpec: rooms created, tokens handed out and clock ticks in one
\* behaviour.
MaxRooms == 2

RoomMaxTokens == 1

MaxRoomTicks == 1

\* ChatSpec: users that sign up, rooms, sendMessage requests and ticks.
ChatMaxTokens == 1

ChatMaxRooms == 1

MaxSends == 3

MaxChatTicks == 2

\* LimitSpec: requests and ticks.
MaxLimitRequests == 12

MaxLimitTicks == 1

\* FaultSpec: users that sign up, how far a rate-limit counter gets,
\* sendMessage requests and ticks.
FaultMaxTokens == 2

FaultMaxCount == 2

FaultMaxSends == 3

FaultMaxTicks == 1

\* BurstSpec: sendMessage requests and ticks.
MaxBurstRequests == 5

MaxBurstTicks == 2

\* PresenceSpec: users that sign up, requests and ticks.
PresenceMaxTokens == 2

MaxPresenceRequests == 3

MaxPresenceTicks == 1

\* RefreshSpec: sendMessage and leaveRoom requests.
MaxRefreshRequests == 3

\* Under ConcSpec: requests in flight at once, requests in one behaviour,
\* and tokens the generator hands out.
MaxInFlight == 2

MaxRequests == 4

ConcMaxTokens == 2

\* ------------------------------------------------------------------------
\* Inputs
\* ------------------------------------------------------------------------
\* Usernames as clients send them, all of them well-formed (USERNAME_REGEX)
\* and clean; "Amy" is "amy" in another case.  Passwords are long enough.
Names == {"amy", "Amy", "bob"}

toLowerCase(n) == IF n = "Amy" THEN "amy" ELSE n

Usernames == {toLowerCase(n) : n \in Names}

Passwords == {"password1", "password2"}

SignupPasswords == {"password1"}

\* The names of the requests that follow one user over time.
TimedNames == {"amy", "Amy"}

\* crypto.randomBytes(32).toString("hex"): the n-th value drawn.  Values are
\* 64 hex digits, never equal to one another or to a username.
TokenNames == <<"t1", "t2", "t3", "t4", "t5", "t6">>

generateAuthToken(n) == TokenNames[n]

AllTokens == {TokenNames[i] : i \in 1..Len(TokenNames)}

\* A string no token was ever generated as.
Junk == "junk"

\* The names of the requests about rooms; "ryo" is the admin.
RoomNames == {"amy", "Amy", "bob", "ryo"}

\* The members lists a createRoom request may carry.
\* Text (a room name, the content of a message) is a sequence of pieces:
\* single characters, and for brevity whole words and the URL schemes, each
\* standing for its characters in a row.  "a" and "b" are letters,
\* "general" a clean word, "inappropriate" a word of the filter's list.
Schemes == {"http://", "https://"}

Whitespace == {" "}

HtmlSignificant == {"&", "<", ">", "\"", "'"}

ProfaneWords == {"inappropriate"}

WordPieces == {"a", "b", "general"} \cup ProfaneWords

\* Names for a public room: none, a clean one and a profane one.
RoomTitles == {<<>>, <<"general">>, <<"inappropriate">>}

MemberLists == {<<>>, <<"Amy", "bob">>, <<"bob", "ryo">>}

\* crypto.randomBytes(16).toString("hex"): the n-th room id drawn.
RoomIds == <<"r1", "r2", "r3">>

generateId(n) == RoomIds[n]

Range(seq) == {seq[i] : i \in 1..Len(seq)}

\* ------------------------------------------------------------------------
\* The key-value store: a family of keys is a function from the keys that
\* exist to their values; a key with a TTL carries its expiry time, and is
\* gone once the clock reaches it (see Tick).
\* ------------------------------------------------------------------------
Has(m, k) == k \in DOMAIN m

Put(m, k, v) == [x \in (DOMAIN m) \cup {k} |-> IF x = k THEN v ELSE m[x]]

Del(m, k) == [x \in (DOMAIN m) \ {k} |-> m[x]]

DelAll(m, ks) == [x \in (DOMAIN m) \ ks |-> m[x]]

Empty == [x \in {} |-> None]

\* redis.expire(key, ttl) on a family whose values are records with an exp
\* field: no effect on a key that does not exist.
ExpireRec(m, k, t, ttl) == IF Has(m, k) THEN [m EXCEPT ![k].exp = t + ttl] ELSE m

\* An expire that creates the key it does not find: what ExpireKey must
\* not be.
ExpireKeyOrCreate(m, k, t, ttl) == Put(m, k, t + ttl)

\* An expire that leaves the key the life it had: what ExpireKey must not
\* be either.
ExpireKeyNot(m, k, t, ttl) == m

\* The same on a family whose values are the expiry times themselves.
ExpireKey(m, k, t, ttl) == IF Has(m, k) THEN [m EXCEPT ![k] = t + ttl] ELSE m

\* A counter: its value, and its expiry if it has one.
Lives(c, t) == ~c.hasTtl \/ c.exp > t

\* A counter that does not count past 1: what Incr must not be.
IncrOnce(m, k) ==
  IF Has(m, k) THEN [m EXCEPT ![k].v = 1]
  ELSE Put(m, k, [v |-> 1, exp |-> 0, hasTtl |-> FALSE])

\* redis.incr(key): a key that does not exist counts from 0 and gets no
\* expiry; one that exists keeps its expiry.
Incr(m, k) ==
  IF Has(m, k) THEN [m EXCEPT ![k].v = @ + 1]
  ELSE Put(m, k, [v |-> 1, exp |-> 0, hasTtl |-> FALSE])

\* redis.expire(key, ttl) on a counter.
ExpireCounter(m, k, t, ttl) ==
  IF Has(m, k) THEN [m EXCEPT ![k].exp = t + ttl, ![k].hasTtl = TRUE] ELSE m

\* redis.set(key, v, {ex: ttl}).
SetEx(m, k, v, t, ttl) == Put(m, k, [v |-> v, exp |-> t + ttl, hasTtl |-> TRUE])

\* Keys of every family whose expiry time has come.
Purge(s, t) ==
  [s EXCEPT
     !.direct = [k \in {x \in DOMAIN s.direct : s.direct[x].exp > t} |-> s.direct[k]],
     !.userTok = [k \in {x \in DOMAIN s.userTok : s.userTok[x] > t} |-> s.userTok[k]],
     !.last = [k \in {x \in DOMAIN s.last : s.last[x].exp > t} |-> s.last[k]],
     !.presence = [k \in {x \in DOMAIN s.presence : s.presence[x] > t} |-> s.presence[k]],
     !.users = {u \in s.users : Has(s.userExp, u) => s.userExp[u] > t},
     !.userExp = [k \in {x \in DOMAIN s.userExp : s.userExp[x] > t} |-> s.userExp[k]],
     !.burst = [k \in {x \in DOMAIN s.burst : Lives(s.burst[x], t)} |-> s.burst[k]],
     !.rate = [k \in {x \in DOMAIN s.rate : Lives(s.rate[x], t)} |-> s.rate[k]]]

\* users     chat:users:{username}            the User records
\* password  chat:password:{username}         password hashes
\* direct    chat:token:{token} -> username   and the legacy
\*           chat:token:{username} -> token   (one key space)
\* userTok   chat:token:user:{username}:{token}
\* last      chat:token:last:{username} -> {token, expiredAt}
\* rooms     chat:room:{roomId}
\* presence  chat:presence:{roomId}:{username}
\* messages  chat:messages:{roomId}           the list, newest first
\* userExp   the expiry of chat:users:{username}, for the users that have one
\* burst     rl:chat:b:{s|l|last}:{roomId}:{username}   counters and the
\*           time of the last message: value, expiry, and whether there is
\*           an expiry at all
\* rate      rl:{action}:{identifier}         counters, the same way
EmptyStore ==
  [users |-> {}, password |-> Empty, direct |-> Empty, userTok |-> Empty,
   last |-> Empty, rooms |-> Empty, presence |-> Empty, messages |-> Empty,
   userExp |-> Empty, burst |-> Empty, rate |-> Empty]

\* ------------------------------------------------------------------------
\* Request frames: the handler, its position, its arguments and locals.
\* ------------------------------------------------------------------------
\* No room: what a get of a room key that does not exist leaves in a local.
NoRoom == [id |-> None, type |-> None, members |-> <<>>, userCount |-> 0]

NewFrame(op, pc, ret, username, token, password, allowExpired, newToken) ==
  [op |-> op, pc |-> pc, ret |-> ret, username |-> username, token |-> token,
   password |-> password, allowExpired |-> allowExpired, newToken |-> newToken,
   valid |-> FALSE, expired |-> FALSE, mapped |-> None, keys |-> {},
   status |-> 0, out |-> None, known |-> {},
   roomId |-> None, type |-> None, members |-> <<>>, roomObj |-> NoRoom,
   roomData |-> NoRoom, userCount |-> 0, newRoom |-> None, rooms |-> {},
   name |-> <<>>, content |-> <<>>, pushed |-> {}, pushFailed |-> FALSE,
   faulty |-> FALSE, failedAt |-> None, count |-> 0, nowSeconds |-> 0,
   allowed |-> FALSE, exists |-> FALSE, extended |-> FALSE, timestamp |-> 0,
   xUsername |-> None, bodyUsername |-> None, entry |-> "done", storeFails |-> FALSE]

\* A request about a room: the body's roomId, type and members.
RoomFrame(op, pc, ret, username, token, roomId, type, members) ==
  [NewFrame(op, pc, ret, username, token, None, FALSE, None)
     EXCEPT !.roomId = roomId, !.type = type, !.members = members]

Idle == NewFrame("idle", "done", "done", None, None, None, FALSE, None)

Goto(s, f, pc) == {[s |-> s, f |-> [f EXCEPT !.pc = pc]]}

\* The handler returns a Response with this status.
Respond(s, f, status, out) ==
  {[s |-> s, f |-> [f EXCEPT !.pc = "done", !.status = status, !.out = out]]}

\* ------------------------------------------------------------------------
\* validateAuth(username, token, requestId, allowExpired)
\* ------------------------------------------------------------------------

\* A key for user-specific tokens that leaves the username out: what
\* getUserTokenKey must not be.
getUserTokenKeyShared(username, token) == <<"", token>>

getUserTokenKey(username, token) == <<toLowerCase(username), token>>

\* A comparison that is content with any mapping of the token: what
\* MappedToUser must not be.
MappedToAnyone(mappedLower, normalizedUsername) == mappedLower # None

\* The token's mapping names the user who presents it.
MappedToUser(mappedLower, normalizedUsername) == mappedLower = normalizedUsername

AuthReturn(s, f, valid, expired) ==
  {[s |-> s, f |-> [f EXCEPT !.pc = f.ret, !.valid = valid, !.expired = expired]]}

validateAuthStep(s, f, t) ==
  LET userTokenKey == getUserTokenKey(f.username, f.token)
      normalizedUsername == toLowerCase(f.username)
  IN
  CASE f.pc = "va_exists" ->
         IF f.username = None \/ f.token = None THEN AuthReturn(s, f, FALSE, FALSE)
         ELSE IF Has(s.userTok, userTokenKey) THEN Goto(s, f, "va_expireUser")
         ELSE Goto(s, f, "va_getMapped")
    [] f.pc = "va_expireUser" ->
         Goto([s EXCEPT !.userTok = ExpireKey(@, userTokenKey, t, USER_TTL_SECONDS)],
              f, "va_expireDirect")
    [] f.pc = "va_expireDirect" ->
         AuthReturn([s EXCEPT !.direct = ExpireRec(@, f.token, t, USER_TTL_SECONDS)],
                    f, TRUE, FALSE)
    [] f.pc = "va_getMapped" ->
         LET mappedUsername == IF Has(s.direct, f.token) THEN s.direct[f.token].v ELSE None
             mappedLower == IF mappedUsername = None THEN None ELSE toLowerCase(mappedUsername)
         IN IF MappedToUser(mappedLower, normalizedUsername) THEN Goto(s, f, "va_expireMapped")
            ELSE Goto(s, f, "va_getLegacy")
    [] f.pc = "va_expireMapped" ->
         Goto([s EXCEPT !.direct = ExpireRec(@, f.token, t, USER_TTL_SECONDS)],
              f, "va_migrateMapped")
    [] f.pc = "va_migrateMapped" ->
         AuthReturn([s EXCEPT !.userTok = Put(@, userTokenKey, t + USER_TTL_SECONDS)],
                    f, TRUE, FALSE)
    [] f.pc = "va_getLegacy" ->
         LET storedToken == IF Has(s.direct, normalizedUsername)
                            THEN s.direct[normalizedUsername].v ELSE None
         IN IF storedToken # None /\ storedToken = f.token THEN Goto(s, f, "va_expireLegacy")
            ELSE IF f.allowExpired THEN Goto(s, f, "va_getLast")
            ELSE AuthReturn(s, f, FALSE, FALSE)
    [] f.pc = "va_expireLegacy" ->
         Goto([s EXCEPT !.direct = ExpireRec(@, normalizedUsername, t, USER_TTL_SECONDS)],
              f, "va_migrateLegacy")
    [] f.pc = "va_migrateLegacy" ->
         AuthReturn([s EXCEPT !.userTok = Put(@, userTokenKey, t + USER_TTL_SECONDS)],
                    f, TRUE, FALSE)
    [] f.pc = "va_getLast" ->
         IF Has(s.last, normalizedUsername)
         THEN LET lastTokenData == s.last[normalizedUsername]
                  gracePeriodEnd == lastTokenData.expiredAt + TOKEN_GRACE_PERIOD
              IN IF lastTokenData.token = f.token /\ t < gracePeriodEnd
                 THEN AuthReturn(s, f, TRUE, TRUE)
                 ELSE AuthReturn(s, f, FALSE, FALSE)
         ELSE AuthReturn(s, f, FALSE, FALSE)

VaPcs ==
  {"va_exists", "va_expireUser", "va_expireDirect", "va_getMapped", "va_expireMapped",
   "va_migrateMapped", "va_getLegacy", "va_expireLegacy", "va_migrateLegacy", "va_getLast"}


\* ------------------------------------------------------------------------
\* storeToken, storeLastValidToken, deleteToken
\* ------------------------------------------------------------------------
\* A call of a helper that is itself several store commands: run it from pc
\* and come back at ret.
Call(s, f, pc, ret) == {[s |-> s, f |-> [f EXCEPT !.pc = pc, !.ret = ret]]}

Return(s, f) == {[s |-> s, f |-> [f EXCEPT !.pc = f.ret]]}

\* The legacy single-token record chat:token:{username} -> token, written by
\* every handler that issues a token.
setLegacyToken(s, username, token, t) ==
  [s EXCEPT !.direct = Put(@, username, [v |-> token, exp |-> t + USER_EXPIRATION_TIME])]

storeTokenStep(s, f, t) ==
  LET normalizedUsername == toLowerCase(f.username) IN
  CASE f.pc = "st_user" ->
         IF f.newToken = None THEN Return(s, f)
         ELSE Goto([s EXCEPT !.userTok = Put(@, getUserTokenKey(normalizedUsername, f.newToken),
                                              t + USER_EXPIRATION_TIME)],
                   f, "st_direct")
    [] f.pc = "st_direct" ->
         Return([s EXCEPT !.direct = Put(@, f.newToken, [v |-> normalizedUsername,
                                                          exp |-> t + USER_EXPIRATION_TIME])],
                f)

StPcs == {"st_user", "st_direct"}

storeLastValidToken(s, username, token, expiredAt, ttlSeconds, t) ==
  [s EXCEPT !.last = Put(@, toLowerCase(username),
                         [token |-> token, expiredAt |-> expiredAt, exp |-> t + ttlSeconds])]

deleteTokenStep(s, f, t) ==
  CASE f.pc = "dt_get" ->
         IF f.token = None THEN Return(s, f)
         ELSE {[s |-> s,
                f |-> [f EXCEPT !.pc = "dt_delDirect",
                                !.mapped = IF Has(s.direct, f.token)
                                           THEN s.direct[f.token].v ELSE None]]}
    [] f.pc = "dt_delDirect" ->
         Goto([s EXCEPT !.direct = Del(@, f.token)], f,
              IF f.mapped # None THEN "dt_delUser" ELSE "dt_scan")
    [] f.pc = "dt_delUser" ->
         Return([s EXCEPT !.userTok = Del(@, getUserTokenKey(f.mapped, f.token))], f)
    [] f.pc = "dt_scan" ->
         LET keysToDelete == {k \in DOMAIN s.userTok : k[2] = f.token}
         IN IF keysToDelete = {} THEN Return(s, f)
            ELSE {[s |-> s, f |-> [f EXCEPT !.pc = "dt_delKeys", !.keys = keysToDelete]]}
    [] f.pc = "dt_delKeys" ->
         Return([s EXCEPT !.userTok = DelAll(@, f.keys)], [f EXCEPT !.keys = {}])

DtPcs == {"dt_get", "dt_delDirect", "dt_delUser", "dt_scan", "dt_delKeys"}

\* ------------------------------------------------------------------------
\* deleteAllUserTokens(username)
\* ------------------------------------------------------------------------
deleteAllUserTokensStep(s, f, t) ==
  LET normalizedUsername == toLowerCase(f.username) IN
  CASE f.pc = "da_scanUser" ->
         LET userTokenKeys == {k \in DOMAIN s.userTok : k[1] = normalizedUsername}
         IN IF userTokenKeys = {} THEN Goto(s, f, "da_scanOld")
            ELSE {[s |-> s, f |-> [f EXCEPT !.pc = "da_pipeline", !.keys = userTokenKeys]]}
    [] f.pc = "da_pipeline" ->
         Goto([s EXCEPT !.userTok = DelAll(@, f.keys),
                        !.direct = DelAll(@, {k[2] : k \in f.keys})],
              [f EXCEPT !.keys = {}], "da_scanOld")
    [] f.pc = "da_scanOld" ->
         \* chat:token:* without the user-scoped keys, the last-token records
         \* and this user's legacy key: what is left maps a token to a name
         LET oldTokenKeysToDelete ==
               {x \in DOMAIN s.direct :
                  x # normalizedUsername /\ toLowerCase(s.direct[x].v) = normalizedUsername}
         IN IF oldTokenKeysToDelete = {} THEN Goto(s, f, "da_delLegacy")
            ELSE {[s |-> s, f |-> [f EXCEPT !.pc = "da_delOld", !.keys = oldTokenKeysToDelete]]}
    [] f.pc = "da_delOld" ->
         Goto([s EXCEPT !.direct = DelAll(@, f.keys)], [f EXCEPT !.keys = {}], "da_delLegacy")
    [] f.pc = "da_delLegacy" ->
         Goto([s EXCEPT !.direct = Del(@, normalizedUsername)], f, "da_delLast")
    [] f.pc = "da_delLast" ->
         {[s |-> [s EXCEPT !.last = Del(@, normalizedUsername)],
           f |-> [f EXCEPT !.pc = "done"]]}

DaPcs == {"da_scanUser", "da_pipeline", "da_scanOld", "da_delOld", "da_delLegacy", "da_delLast"}


\* ------------------------------------------------------------------------
\* POST's rate limit for the sensitive actions: checkRateLimit(action,
\* identifier), and the 429 of POST when it returns false.  f.ret is where
\* the handler of the action begins.
\* ------------------------------------------------------------------------
RateKey(f) == <<f.op, IF f.username = None THEN "anon" ELSE toLowerCase(f.username)>>

\* A store command of checkRateLimit throws: the catch logs and returns
\* true.
RateFailure(s, f) ==
  {[s |-> s, f |-> [f EXCEPT !.pc = f.ret, !.allowed = TRUE, !.failedAt = f.pc]]}

RateCommand(s, f, outcomes) == outcomes \cup (IF f.faulty THEN RateFailure(s, f) ELSE {})

\* checkRateLimit returns true.
Allow(s, f) == {[s |-> s, f |-> [f EXCEPT !.pc = f.ret, !.allowed = TRUE]]}

checkRateLimitStep(s, f, t) ==
  LET key == RateKey(f) IN
  CASE f.pc = "rl_get" ->
         RateCommand(s, f,
           IF ~Has(s.rate, key) THEN Goto(s, f, "rl_set")
           ELSE IF s.rate[key].v >= RATE_LIMIT_ATTEMPTS THEN Respond(s, f, 429, "generic")
           ELSE Goto(s, f, "rl_incr"))
    [] f.pc = "rl_set" ->
         RateCommand(s, f,
           Allow([s EXCEPT !.rate = SetEx(@, key, 1, t, RATE_LIMIT_WINDOW_SECONDS)], f))
    [] f.pc = "rl_incr" ->
         RateCommand(s, f, Allow([s EXCEPT !.rate = Incr(@, key)], f))

RlPcs == {"rl_get", "rl_set", "rl_incr"}

\* ------------------------------------------------------------------------
\* The token handlers.  n is the number of the next value the random
\* generator draws; a frame that holds a newToken has drawn it.
\* ------------------------------------------------------------------------
hashPassword(password) == [hash |-> password]

verifyPassword(password, hash) == hash = hashPassword(password)

handleCreateUserStep(s, f, t, n) ==
  LET username == toLowerCase(f.username) IN
  CASE f.pc = "cu_setnx" ->
         IF f.username = None THEN Respond(s, f, 400, None)
         ELSE IF username \in s.users
         THEN (IF f.password # None THEN Goto(s, f, "cu_getHash")
               ELSE Respond(s, f, 409, None))
         ELSE Goto([s EXCEPT !.users = @ \cup {username}], f,
                   IF f.password # None THEN "cu_setHash" ELSE "cu_setLegacy")
    [] f.pc = "cu_getHash" ->
         IF Has(s.password, username) /\ verifyPassword(f.password, s.password[username])
         THEN Goto(s, f, "cu_loginSetLegacy")
         ELSE Respond(s, f, 409, None)
    [] f.pc = "cu_loginSetLegacy" ->
         LET authToken == generateAuthToken(n)
         IN Goto(setLegacyToken(s, username, authToken, t),
                 [f EXCEPT !.newToken = authToken], "cu_loginGetUser")
    [] f.pc = "cu_loginGetUser" -> Respond(s, f, 200, f.newToken)
    [] f.pc = "cu_setHash" ->
         Goto([s EXCEPT !.password = Put(@, username, hashPassword(f.password))],
              f, "cu_setLegacy")
    [] f.pc = "cu_setLegacy" ->
         LET authToken == generateAuthToken(n)
         IN Call(setLegacyToken(s, username, authToken, t),
                 [f EXCEPT !.newToken = authToken], "st_user", "cu_storeLast")
    [] f.pc = "cu_storeLast" ->
         Respond(storeLastValidToken(s, username, f.newToken, t + USER_EXPIRATION_TIME,
                                     USER_EXPIRATION_TIME + TOKEN_GRACE_PERIOD, t),
                 f, 201, f.newToken)

\* POST's authentication of a protected action, then handleGenerateToken.
handleGenerateTokenStep(s, f, t, n) ==
  LET username == toLowerCase(f.username) IN
  CASE f.pc = "gt_getUser" ->
         IF ~f.valid THEN Respond(s, f, 401, None)
         ELSE IF username \notin s.users THEN Respond(s, f, 404, None)
         ELSE Goto(s, f, "gt_getLegacy")
    [] f.pc = "gt_getLegacy" -> Goto(s, f, "gt_setLegacy")
    [] f.pc = "gt_setLegacy" ->
         LET authToken == generateAuthToken(n)
         IN Call(setLegacyToken(s, username, authToken, t),
                 [f EXCEPT !.newToken = authToken], "st_user", "gt_storeLast")
    [] f.pc = "gt_storeLast" ->
         Respond(storeLastValidToken(s, username, f.newToken, t + USER_EXPIRATION_TIME,
                                     USER_EXPIRATION_TIME + TOKEN_GRACE_PERIOD, t),
                 f, 201, f.newToken)

handleRefreshTokenStep(s, f, t, n) ==
  LET username == toLowerCase(f.username) IN
  CASE f.pc = "rt_getUser" ->
         IF f.username = None \/ f.token = None THEN Respond(s, f, 400, None)
         ELSE IF username \notin s.users THEN Respond(s, f, 404, None)
         ELSE Call(s, [f EXCEPT !.allowExpired = TRUE], "va_exists", "rt_storeLast")
    [] f.pc = "rt_storeLast" ->
         IF ~f.valid THEN Respond(s, f, 401, None)
         ELSE Call(storeLastValidToken(s, username, f.token, t, TOKEN_GRACE_PERIOD, t),
                   f, "dt_get", "rt_setLegacy")
    [] f.pc = "rt_setLegacy" ->
         LET authToken == generateAuthToken(n)
         IN Call(setLegacyToken(s, username, authToken, t),
                 [f EXCEPT !.newToken = authToken], "st_user", "rt_respond")
    [] f.pc = "rt_respond" -> Respond(s, f, 201, f.newToken)

\* The response of handleVerifyToken: its status, and in f.valid, f.expired
\* and f.out the body's valid, expired and username.
VerifyRespond(s, f, valid, expired, username) ==
  {[s |-> s, f |-> [f EXCEPT !.pc = "done", !.status = IF valid THEN 200 ELSE 401,
                            !.valid = valid, !.expired = expired, !.out = username]]}

handleVerifyTokenStep(s, f, t) ==
  CASE f.pc = "vt_getDirect" ->
         IF f.token = None THEN VerifyRespond(s, f, FALSE, FALSE, None)
         ELSE IF Has(s.direct, f.token)
         THEN {[s |-> s, f |-> [f EXCEPT !.pc = "vt_expireDirect",
                                         !.mapped = toLowerCase(s.direct[f.token].v)]]}
         ELSE Goto(s, f, "vt_scanUser")
    [] f.pc = "vt_expireDirect" ->
         Goto([s EXCEPT !.direct = ExpireRec(@, f.token, t, USER_TTL_SECONDS)],
              f, "vt_existsUser")
    [] f.pc = "vt_existsUser" ->
         IF Has(s.userTok, getUserTokenKey(f.mapped, f.token))
         THEN Goto(s, f, "vt_expireUser") ELSE Goto(s, f, "vt_setUser")
    [] f.pc = "vt_expireUser" ->
         VerifyRespond([s EXCEPT !.userTok = ExpireKey(@, getUserTokenKey(f.mapped, f.token),
                                                      t, USER_TTL_SECONDS)],
                       f, TRUE, FALSE, f.mapped)
    [] f.pc = "vt_setUser" ->
         VerifyRespond([s EXCEPT !.userTok = Put(@, getUserTokenKey(f.mapped, f.token),
                                                t + USER_TTL_SECONDS)],
                       f, TRUE, FALSE, f.mapped)
    [] f.pc = "vt_scanUser" ->
         \* foundKey is the first key the scan returns: any of the matches
         LET keys == {k \in DOMAIN s.userTok : k[2] = f.token}
         IN IF keys = {} THEN Goto(s, f, "vt_scanLast")
            ELSE {[s |-> s, f |-> [f EXCEPT !.pc = "vt_expireFound", !.mapped = k[1]]] :
                    k \in keys}
    [] f.pc = "vt_expireFound" ->
         Goto([s EXCEPT !.userTok = ExpireKey(@, <<f.mapped, f.token>>, t, USER_TTL_SECONDS)],
              f, "vt_setDirect")
    [] f.pc = "vt_setDirect" ->
         VerifyRespond([s EXCEPT !.direct = Put(@, f.token, [v |-> f.mapped,
                                                            exp |-> t + USER_TTL_SECONDS])],
                       f, TRUE, FALSE, f.mapped)
    [] f.pc = "vt_scanLast" ->
         LET found == {u \in DOMAIN s.last :
                         s.last[u].token = f.token
                         /\ t < s.last[u].expiredAt + TOKEN_GRACE_PERIOD}
         IN IF found = {} THEN VerifyRespond(s, f, FALSE, FALSE, None)
            ELSE UNION {VerifyRespond(s, f, TRUE, TRUE, graceUsername) :
                          graceUsername \in found}

\* ------------------------------------------------------------------------
\* Presence and the cached user count
\* ------------------------------------------------------------------------
setRoomPresence(s, roomId, username, t) ==
  [s EXCEPT !.presence = Put(@, <<roomId, username>>, t + ROOM_PRESENCE_TTL_SECONDS)]

\* The users that exist, in whatever room: what getActiveUsersInRoom must
\* not be.
getExistingUsers(s, roomId) == s.users

\* The usernames of the presence keys of the room that exist.
getActiveUsersInRoom(s, roomId) ==
  {k[2] : k \in {x \in DOMAIN s.presence : x[1] = roomId}}

\* The old room user sets are never written: there is nothing to prune.
getActiveUsersAndPrune(s, roomId) == getActiveUsersInRoom(s, roomId)

refreshRoomUserCountStep(s, f, t) ==
  CASE f.pc = "rc_scan" ->
         {[s |-> s, f |-> [f EXCEPT !.pc = "rc_get",
                                    !.userCount = Cardinality(getActiveUsersAndPrune(s, f.roomId))]]}
    [] f.pc = "rc_get" ->
         IF Has(s.rooms, f.roomId)
         THEN {[s |-> s, f |-> [f EXCEPT !.pc = "rc_set", !.roomData = s.rooms[f.roomId]]]}
         ELSE Return(s, f)
    [] f.pc = "rc_set" ->
         Return([s EXCEPT !.rooms = Put(@, f.roomId, [f.roomData EXCEPT !.userCount = f.userCount])],
                [f EXCEPT !.roomData = NoRoom])

RcPcs == {"rc_scan", "rc_get", "rc_set"}

\* ------------------------------------------------------------------------
\* The room handlers.  A room is its id, type, members and userCount; its
\* name and createdAt play no part in what follows.
\* ------------------------------------------------------------------------
\* A filter that shows a named viewer every room: what RoomVisibleTo must
\* not be.
RoomVisibleToNamed(room, username) == room.type = "public" \/ username # None

\* handleGetRooms' filter: username is the lowercased query parameter or None.
RoomVisibleTo(room, username) ==
  IF room.type = "public" THEN TRUE
  ELSE IF room.type = "private" /\ username # None THEN username \in Range(room.members)
  ELSE FALSE

\* getDetailedRooms and the filter; the response lists the rooms by id.
handleGetRoomsStep(s, f, t) ==
  LET username == IF f.username = None THEN None ELSE toLowerCase(f.username) IN
  CASE f.pc = "gs_scan" ->
         {[s |-> s, f |-> [f EXCEPT !.pc = "gs_mget", !.keys = DOMAIN s.rooms]]}
    [] f.pc = "gs_mget" ->
         LET allRooms == {s.rooms[k] : k \in f.keys \cap DOMAIN s.rooms}
             visibleRooms == {room \in allRooms : RoomVisibleTo(room, username)}
         IN {[s |-> s, f |-> [f EXCEPT !.pc = "done", !.status = 200, !.keys = {},
                                      !.rooms = {room.id : room \in visibleRooms}]]}

handleGetRoomStep(s, f, t) ==
  CASE f.pc = "gr_get" ->
         IF Has(s.rooms, f.roomId)
         THEN Call(s, [f EXCEPT !.roomObj = s.rooms[f.roomId]], "rc_scan", "gr_respond")
         ELSE Respond(s, f, 404, None)
    [] f.pc = "gr_respond" -> Respond(s, f, 200, f.roomId)

\* ------------------------------------------------------------------------
\* Pushes.  A push to a channel is delivered or fails; the channels a request
\* delivered to are kept in its frame.
\* ------------------------------------------------------------------------
PublicChannel == <<"chats", "public">>

UserChannel(username) == <<"chats", username>>

RoomChannel(roomId) == <<"room", roomId>>

\* A failed push that is not caught: what PushFailure must not be.
PushFailureThrown(s, f) ==
  {[s |-> s, f |-> [f EXCEPT !.pc = "done", !.status = 500, !.out = None,
                             !.pushFailed = TRUE]]}

\* A push that fails inside the try blocks of the broadcast helpers and of
\* the handlers: logged, and the caller goes on.
PushFailure(s, f) == {[s |-> s, f |-> [f EXCEPT !.pc = f.ret, !.pushFailed = TRUE]]}

\* The pushes of one Promise.all or one trigger: all delivered, or a failure.
Push(s, f, channels) ==
  {[s |-> s, f |-> [f EXCEPT !.pc = f.ret, !.pushed = @ \cup channels]]}
    \cup PushFailure(s, f)

\* broadcastRoomsUpdated(): the rooms are read, the public ones pushed to
\* the public channel, the user keys scanned and every user's channel pushed.
\* broadcastToSpecificUsers(usernames): the rooms are read and pushed to the
\* channels of these users (f.keys).
broadcastStep(s, f, t) ==
  CASE f.pc = "br_rooms" -> Goto(s, f, "br_users")
    [] f.pc = "br_users" -> Goto(s, [f EXCEPT !.keys = s.users], "br_push")
    [] f.pc = "br_push" -> Push(s, f, {PublicChannel} \cup {UserChannel(u) : u \in f.keys})
    [] f.pc = "bs_push" ->
         IF f.keys = {} THEN Return(s, f)
         ELSE Push(s, f, {UserChannel(u) : u \in f.keys})

BrPcs == {"br_rooms", "br_users", "br_push", "bs_push"}

\* Any caller counts as the administrator: what IsAdmin must not be.
IsAdminAnyone(normalizedUsername) == TRUE

\* The administrator, the one user who may create public rooms.
IsAdmin(normalizedUsername) == normalizedUsername = "ryo"

\* Whether the pieces i..j of str are one word: letters and digits with a
\* word boundary on each side.
IsWord(str, i, j) ==
  /\ i <= j
  /\ \A k \in i..j : str[k] \in WordPieces
  /\ (i = 1 \/ str[i - 1] \notin WordPieces)
  /\ (j = Len(str) \/ str[j + 1] \notin WordPieces)

\* filter.isProfane(str): a word of the filter's list stands in str as a
\* whole word.
isProfane(str) ==
  \E i \in 1..Len(str) : IsWord(str, i, i) /\ str[i] \in ProfaneWords

\* The placeHolder of the filter, once for every letter of a word it
\* replaced.
Masked == "*"

\* filter.clean(str): str is split at word boundaries and at underscores
\* (which the split drops), every part that is a listed word is replaced
\* by placeholders, and the parts are joined again.  A scheme begins with
\* letters and ends with a slash: there is a word boundary after it and
\* none before it.
clean(str) ==
  LET listed(i) == /\ str[i] \in ProfaneWords
                   /\ (i = 1 \/ str[i - 1] \notin WordPieces)
                   /\ (i = Len(str) \/ str[i + 1] \notin WordPieces \cup Schemes)
      replaced == [i \in 1..Len(str) |-> IF listed(i) THEN Masked ELSE str[i]]
  IN SelectSeq(replaced, LAMBDA ch : ch # "_")

\* Where the URL that starts at piece i of content ends: before the next
\* whitespace, or at the end.
UrlEnd(content, i) ==
  CHOOSE j \in i..Len(content) :
    /\ \A k \in (i + 1)..j : content[k] \notin Whitespace
    /\ (j = Len(content) \/ content[j + 1] \in Whitespace)

\* urlRegex matches at piece i: a scheme and at least one character that
\* is not whitespace.
UrlStartsAt(content, i) ==
  /\ content[i] \in Schemes
  /\ i < Len(content)
  /\ content[i + 1] \notin Whitespace

\* The filter run over all of the content, URLs included: what
\* filterProfanityPreservingUrls must not be.
filterProfanityEverywhere(content) == clean(content)

\* filterProfanityPreservingUrls(content): the text between the URLs goes
\* through the filter, the URLs are copied.
RECURSIVE filterFrom(_, _, _)
filterFrom(content, i, lastIndex) ==
  LET starts == {k \in i..Len(content) : UrlStartsAt(content, k)}
  IN IF starts = {} THEN clean(SubSeq(content, lastIndex, Len(content)))
     ELSE LET m == CHOOSE k \in starts : \A l \in starts : k <= l
              j == UrlEnd(content, m)
          IN clean(SubSeq(content, lastIndex, m - 1)) \o SubSeq(content, m, j)
               \o filterFrom(content, j + 1, j + 1)

filterProfanityPreservingUrls(content) == filterFrom(content, 1, 1)

\* escapeHTML(str): the five characters become entities.
Entity(ch) ==
  CASE ch = "&" -> "&amp;"
    [] ch = "<" -> "&lt;"
    [] ch = ">" -> "&gt;"
    [] ch = "\"" -> "&quot;"
    [] ch = "'" -> "&#39;"
    [] OTHER -> ch

escapeHTML(str) == [i \in 1..Len(str) |-> Entity(str[i])]

\* The content handleSendMessage persists for the content of the body.
Sanitize(originalContent) == escapeHTML(filterProfanityPreservingUrls(originalContent))

\* The characters a piece stands for.
PieceLength(ch) ==
  CASE ch \in {"http://", "general"} -> 7
    [] ch = "https://" -> 8
    [] ch \in {"inappropriate", Masked} -> 13
    [] ch \in {"&amp;", "&#39;"} -> 5
    [] ch \in {"&lt;", "&gt;"} -> 4
    [] ch = "&quot;" -> 6
    [] OTHER -> 1

\* str.length: the characters of every kind of piece in str, summed over
\* the kinds.
RECURSIVE LengthOf(_, _)
LengthOf(str, kinds) ==
  IF kinds = {} THEN 0
  ELSE LET ch == CHOOSE k \in kinds : TRUE
       IN PieceLength(ch) * Cardinality({i \in 1..Len(str) : str[i] = ch})
            + LengthOf(str, kinds \ {ch})

Length(str) == LengthOf(str, Range(str))

\* POST's authentication of createRoom, then handleCreateRoom.
handleCreateRoomStep(s, f, t, r) ==
  LET normalizedUsername == toLowerCase(f.username)
      lowered == [i \in 1..Len(f.members) |-> toLowerCase(f.members[i])]
      normalizedMembers == IF normalizedUsername \in Range(lowered) THEN lowered
                           ELSE Append(lowered, normalizedUsername)
  IN
  CASE f.pc = "cr_set" ->
         IF ~f.valid THEN Respond(s, f, 401, None)
         ELSE IF f.type \notin {"public", "private"} THEN Respond(s, f, 400, None)
         ELSE IF f.type = "public" /\ f.name = <<>> THEN Respond(s, f, 400, None)
         ELSE IF f.type = "public" /\ ~IsAdmin(normalizedUsername) THEN Respond(s, f, 403, None)
         ELSE IF f.type = "public" /\ isProfane(f.name) THEN Respond(s, f, 400, None)
         ELSE IF f.type = "private" /\ Len(f.members) = 0 THEN Respond(s, f, 400, None)
         ELSE LET roomId == generateId(r)
                  members == IF f.type = "private" THEN normalizedMembers ELSE <<>>
                  room == [id |-> roomId, type |-> f.type, members |-> members,
                           userCount |-> Len(members)]
                  f2 == [f EXCEPT !.newRoom = roomId, !.roomObj = room]
                  s2 == [s EXCEPT !.rooms = Put(@, roomId, room)]
              IN IF f.type = "private" THEN Goto(s2, f2, "cr_presence")
                 ELSE Call(s2, f2, "br_rooms", "cr_respond")
    [] f.pc = "cr_presence" ->
         \* Promise.all of setRoomPresence for every member
         Call([s EXCEPT !.presence =
                 [k \in DOMAIN @ \cup {<<f.newRoom, m>> : m \in Range(f.roomObj.members)} |->
                    IF k[1] = f.newRoom /\ k[2] \in Range(f.roomObj.members)
                    THEN t + ROOM_PRESENCE_TTL_SECONDS ELSE @[k]]],
              f, "br_rooms", "cr_respond")
    [] f.pc = "cr_respond" -> Respond(s, f, 201, f.newRoom)

handleJoinRoomStep(s, f, t) ==
  LET username == toLowerCase(f.username) IN
  CASE f.pc = "jr_get" ->
         IF f.roomId = None \/ f.username = None THEN Respond(s, f, 400, None)
         ELSE IF ~Has(s.rooms, f.roomId) THEN Respond(s, f, 404, None)
         ELSE IF username \notin s.users THEN Respond(s, f, 404, None)
         ELSE {[s |-> s, f |-> [f EXCEPT !.pc = "jr_setPresence", !.roomObj = s.rooms[f.roomId]]]}
    [] f.pc = "jr_setPresence" ->
         Call(setRoomPresence(s, f.roomId, username, t), f, "rc_scan", "jr_setRoom")
    [] f.pc = "jr_setRoom" ->
         Goto([s EXCEPT !.rooms = Put(@, f.roomId, [f.roomObj EXCEPT !.userCount = f.userCount])],
              f, "jr_setUser")
    [] f.pc = "jr_setUser" ->
         \* set without an expiry: the user key loses the one it had
         Call([s EXCEPT !.users = @ \cup {username}, !.userExp = Del(@, username)],
              f, "br_rooms", "jr_respond")
    [] f.pc = "jr_respond" -> Respond(s, f, 200, None)

\* A del that reports a removal whether or not the key was there: what
\* Removed must not be.
RemovedAlways(s, presenceKey) == TRUE

\* What redis.del(presenceKey) returns: whether it removed the key.
Removed(s, presenceKey) == Has(s.presence, presenceKey)

handleLeaveRoomStep(s, f, t) ==
  LET username == toLowerCase(f.username)
      presenceKey == <<f.roomId, username>>
      updatedMembers == SelectSeq(f.roomObj.members, LAMBDA m : m # username)
  IN
  CASE f.pc = "lr_get" ->
         IF f.roomId = None \/ f.username = None THEN Respond(s, f, 400, None)
         ELSE IF ~Has(s.rooms, f.roomId) THEN Respond(s, f, 404, None)
         ELSE {[s |-> s, f |-> [f EXCEPT !.pc = "lr_del", !.roomObj = s.rooms[f.roomId]]]}
    [] f.pc = "lr_del" ->
         LET removed == Removed(s, presenceKey)
         IN IF removed
            THEN Call([s EXCEPT !.presence = Del(@, presenceKey)], f, "rc_scan", "lr_members")
            ELSE Respond(s, f, 200, None)
    [] f.pc = "lr_members" ->
         IF f.roomObj.type = "private"
         THEN (IF Len(updatedMembers) <= 1 THEN Goto(s, f, "lr_delete")
               ELSE Goto(s, f, "lr_update"))
         ELSE IF f.userCount # f.roomObj.userCount THEN Call(s, f, "br_rooms", "lr_respond")
         ELSE Respond(s, f, 200, None)
    [] f.pc = "lr_delete" ->
         \* the pipeline: the room, its messages and its old user set
         Call([s EXCEPT !.rooms = Del(@, f.roomId), !.messages = Del(@, f.roomId)],
              [f EXCEPT !.keys = Range(f.roomObj.members)], "bs_push", "lr_respond")
    [] f.pc = "lr_update" ->
         Call([s EXCEPT !.rooms = Put(@, f.roomId,
                                      [f.roomObj EXCEPT !.members = updatedMembers,
                                                        !.userCount = f.userCount])],
              f, "br_rooms", "lr_respond")
    [] f.pc = "lr_respond" -> Respond(s, f, 200, None)

\* ------------------------------------------------------------------------
\* handleSendMessage, after POST's authentication
\* ------------------------------------------------------------------------
ShortKey(roomId, username) == <<"s", roomId, username>>

LongKey(roomId, username) == <<"l", roomId, username>>

LastKey(roomId, username) == <<"last", roomId, username>>

\* A store command of the burst check that fails and is not caught: what
\* BurstFailure must not be.
BurstFailureThrown(s, f) ==
  {[s |-> s, f |-> [f EXCEPT !.pc = "done", !.status = 500, !.out = None,
                             !.failedAt = f.pc]]}

\* A store command of the burst check throws: the catch logs, and the
\* handler goes on with the message (it fails open).
BurstFailure(s, f) == {[s |-> s, f |-> [f EXCEPT !.pc = "sm_exists", !.failedAt = f.pc]]}

\* The outcomes of a store command of the burst check: what it does, or,
\* when the store is failing for this request, a failure.
BurstCommand(s, f, outcomes) == outcomes \cup (IF f.faulty THEN BurstFailure(s, f) ELSE {})

\* A store command of the handler's body throws: the catch of the outer
\* try block answers 500.
StoreFailure(s, f) ==
  {[s |-> s, f |-> [f EXCEPT !.pc = "done", !.status = 500, !.out = None, !.failedAt = f.pc]]}

\* The outcomes of a store command of the body: what it does, or, when the
\* store is failing for this request, a failure.
StoreCommand(s, f, outcomes) == outcomes \cup (IF f.storeFails THEN StoreFailure(s, f) ELSE {})

\* A message as the list keeps it (its random id left out).
Message(username, content, timestamp) ==
  [username |-> username, content |-> content, timestamp |-> timestamp]

\* The duplicate test: the last message of the room has this username and
\* this content.
SameMessage(lastMsgObj, username, content) ==
  lastMsgObj.username = username /\ lastMsgObj.content = content

\* The status for a message that repeats the last message of the room.
DUPLICATE_STATUS == 400

\* refreshRoomPresence(roomId, username)
refreshRoomPresenceStep(s, f, t) ==
  LET presenceKey == <<f.roomId, toLowerCase(f.username)>> IN
  CASE f.pc = "rp_exists" ->
         IF Has(s.presence, presenceKey) THEN Goto(s, [f EXCEPT !.exists = TRUE], "rp_expire")
         ELSE Return(s, [f EXCEPT !.exists = FALSE])
    [] f.pc = "rp_expire" ->
         \* extended is what the expire returns: whether it found the key
         Return([s EXCEPT !.presence = ExpireKey(@, presenceKey, t, ROOM_PRESENCE_TTL_SECONDS)],
                [f EXCEPT !.extended = Has(s.presence, presenceKey)])

RpPcs == {"rp_exists", "rp_expire"}

\* A read that finds no user record: what GetUser must not be.
GetUserNothing(s, username) == FALSE

\* ensureUserExists' redis.get(userKey): whether there is a user record.
GetUser(s, username) == username \in s.users

handleSendMessageStep(s, f, t) ==
  LET username == toLowerCase(f.username)
      content == Sanitize(f.content)
      shortKey == ShortKey(f.roomId, username)
      longKey == LongKey(f.roomId, username)
      lastKey == LastKey(f.roomId, username)
      list == IF Has(s.messages, f.roomId) THEN s.messages[f.roomId] ELSE <<>>
  IN
  CASE f.pc = "sm_validate" ->
         IF ~f.valid THEN Respond(s, f, 401, None)
         ELSE IF f.roomId = None THEN Respond(s, f, 400, None)
         ELSE IF f.content = <<>> THEN Respond(s, f, 400, None)
         ELSE Goto(s, f, "sm_getRoom")
    [] f.pc = "sm_getRoom" ->
         BurstCommand(s, f,
           IF ~Has(s.rooms, f.roomId) THEN Respond(s, f, 404, None)
           ELSE IF s.rooms[f.roomId].type = "public"
           THEN Goto(s, [f EXCEPT !.roomObj = s.rooms[f.roomId]], "sm_incrShort")
           ELSE Goto(s, [f EXCEPT !.roomObj = s.rooms[f.roomId]], "sm_exists"))
    [] f.pc = "sm_incrShort" ->
         BurstCommand(s, f,
           LET s2 == [s EXCEPT !.burst = Incr(@, shortKey)]
               shortCount == s2.burst[shortKey].v
               f2 == [f EXCEPT !.count = shortCount]
           IN IF shortCount = 1 THEN Goto(s2, f2, "sm_expireShort")
              ELSE IF shortCount > CHAT_BURST_SHORT_LIMIT THEN Respond(s2, f2, 429, "short")
              ELSE Goto(s2, f2, "sm_incrLong"))
    [] f.pc = "sm_expireShort" ->
         BurstCommand(s, f,
           Goto([s EXCEPT !.burst = ExpireCounter(@, shortKey, t, CHAT_BURST_SHORT_WINDOW_SECONDS)],
                f, "sm_incrLong"))
    [] f.pc = "sm_incrLong" ->
         BurstCommand(s, f,
           LET s2 == [s EXCEPT !.burst = Incr(@, longKey)]
               longCount == s2.burst[longKey].v
               f2 == [f EXCEPT !.count = longCount]
           IN IF longCount = 1 THEN Goto(s2, f2, "sm_expireLong")
              ELSE IF longCount > CHAT_BURST_LONG_LIMIT THEN Respond(s2, f2, 429, "long")
              ELSE Goto(s2, f2, "sm_getLast"))
    [] f.pc = "sm_expireLong" ->
         BurstCommand(s, f,
           Goto([s EXCEPT !.burst = ExpireCounter(@, longKey, t, CHAT_BURST_LONG_WINDOW_SECONDS)],
                f, "sm_getLast"))
    [] f.pc = "sm_getLast" ->
         BurstCommand(s, f,
           LET nowSeconds == t
               f2 == [f EXCEPT !.nowSeconds = nowSeconds]
           IN IF Has(s.burst, lastKey) /\ nowSeconds - s.burst[lastKey].v < CHAT_MIN_INTERVAL_SECONDS
              THEN Respond(s, f2, 429, "interval")
              ELSE Goto(s, f2, "sm_setLast"))
    [] f.pc = "sm_setLast" ->
         BurstCommand(s, f,
           Goto([s EXCEPT !.burst = SetEx(@, lastKey, f.nowSeconds, t, CHAT_BURST_LONG_WINDOW_SECONDS)],
                f, "sm_exists"))
    [] f.pc = "sm_exists" ->
         IF ~Has(s.rooms, f.roomId) THEN Respond(s, f, 404, None)
         ELSE Goto(s, f, "sm_getUser")
    [] f.pc = "sm_getUser" ->
         \* ensureUserExists
         IF isProfane(<<username>>) THEN Respond(s, f, 400, None)
         ELSE IF GetUser(s, username) THEN Goto(s, f, "sm_lrange")
         ELSE Goto(s, f, "sm_setnxUser")
    [] f.pc = "sm_setnxUser" ->
         IF username \notin s.users
         THEN Goto([s EXCEPT !.users = @ \cup {username}], f, "sm_lrange")
         ELSE Goto(s, f, "sm_regetUser")
    [] f.pc = "sm_regetUser" ->
         IF GetUser(s, username) THEN Goto(s, f, "sm_lrange")
         ELSE Respond(s, f, 500, None)
    [] f.pc = "sm_lrange" ->
         IF Length(content) > MAX_MESSAGE_LENGTH THEN Respond(s, f, 400, "length")
         ELSE StoreCommand(s, f,
                IF list # <<>> /\ SameMessage(Head(list), username, content)
                THEN Respond(s, f, DUPLICATE_STATUS, "duplicate")
                \* the message is made here, with getCurrentTimestamp()
                ELSE Goto(s, [f EXCEPT !.timestamp = t], "sm_lpush"))
    [] f.pc = "sm_lpush" ->
         StoreCommand(s, f,
           Goto([s EXCEPT !.messages = Put(@, f.roomId, <<Message(username, content, f.timestamp)>> \o list)],
                f, "sm_ltrim"))
    [] f.pc = "sm_ltrim" ->
         StoreCommand(s, f,
           Goto([s EXCEPT !.messages =
                   IF Len(list) > MESSAGES_KEPT THEN Put(@, f.roomId, SubSeq(list, 1, MESSAGES_KEPT))
                   ELSE @],
                f, "sm_setUser"))
    [] f.pc = "sm_setUser" ->
         StoreCommand(s, f,
           Goto([s EXCEPT !.users = @ \cup {username}, !.userExp = Del(@, username)],
                f, "sm_expireUser"))
    [] f.pc = "sm_expireUser" ->
         StoreCommand(s, f,
           Call([s EXCEPT !.userExp = IF username \in s.users
                                      THEN Put(@, username, t + USER_EXPIRATION_TIME) ELSE @],
                f, "rp_exists", "sm_trigger"))
    [] f.pc = "sm_trigger" ->
         \* a failure here skips the fan-out: both are in one try block
         {[s |-> s, f |-> [f EXCEPT !.pc = "fo_get", !.ret = "sm_respond",
                                    !.pushed = @ \cup {RoomChannel(f.roomId)}]]}
           \cup PushFailure(s, [f EXCEPT !.ret = "sm_respond"])
    [] f.pc = "fo_get" ->
         \* fanOutToPrivateMembers
         IF Has(s.rooms, f.roomId) /\ s.rooms[f.roomId].type = "private"
         THEN Goto(s, [f EXCEPT !.keys = Range(s.rooms[f.roomId].members)], "fo_push")
         ELSE Return(s, f)
    [] f.pc = "fo_push" -> Push(s, f, {UserChannel(u) : u \in f.keys})
    [] f.pc = "sm_respond" -> Respond(s, f, 201, "message")

\* ------------------------------------------------------------------------
\* POST's authentication of the protected actions.  f.token is the bearer
\* token of the Authorization header (None without the header), f.xUsername
\* the X-Username header, f.bodyUsername the username of the body, f.entry
\* where the handler of the action begins.
\* ------------------------------------------------------------------------
extractAuth(authorization, xUsername) ==
  IF authorization = None THEN [username |-> None, token |-> None]
  ELSE [username |-> xUsername, token |-> authorization]

\* Any username in the body will do: what BodyMatches must not be.
BodyMatchesAny(bodyUsername, username) == TRUE

\* The body names no user, or the user of the header (in any case).
BodyMatches(bodyUsername, username) ==
  \/ bodyUsername = None
  \/ username # None /\ toLowerCase(bodyUsername) = toLowerCase(username)

\* The username the handler of the action works with: handleCreateRoom is
\* passed the authenticated one, the others read the body.
HandlerUsername(f) == IF f.op = "createRoom" THEN f.xUsername ELSE f.bodyUsername

POSTStep(s, f, t) ==
  LET authResult == extractAuth(f.token, f.xUsername) IN
  CASE f.pc = "post_auth" ->
         IF ~BodyMatches(f.bodyUsername, authResult.username)
         THEN Respond(s, f, 401, "mismatch")
         ELSE {[s |-> s,
                f |-> [f EXCEPT !.pc = "va_exists", !.ret = "post_valid",
                                !.token = authResult.token,
                                !.username = IF authResult.username # None
                                             THEN authResult.username ELSE f.bodyUsername]]}
    [] f.pc = "post_valid" ->
         IF ~f.valid THEN Respond(s, f, 401, None)
         ELSE Goto(s, [f EXCEPT !.username = HandlerUsername(f)], f.entry)

PostPcs == {"post_auth", "post_valid"}

\* One store command of a request: the outcomes it can have.  n and r number
\* the next token and the next room id the random generator draws.
Step(s, f, t, n, r) ==
  IF f.pc \in VaPcs THEN validateAuthStep(s, f, t)
  ELSE IF f.pc \in StPcs THEN storeTokenStep(s, f, t)
  ELSE IF f.pc \in DtPcs THEN deleteTokenStep(s, f, t)
  ELSE IF f.pc \in DaPcs THEN deleteAllUserTokensStep(s, f, t)
  ELSE IF f.pc \in RcPcs THEN refreshRoomUserCountStep(s, f, t)
  ELSE IF f.pc \in BrPcs THEN broadcastStep(s, f, t)
  ELSE IF f.pc \in RpPcs THEN refreshRoomPresenceStep(s, f, t)
  ELSE IF f.pc \in RlPcs THEN checkRateLimitStep(s, f, t)
  ELSE IF f.pc \in PostPcs THEN POSTStep(s, f, t)
  ELSE IF f.op = "sendMessage" THEN handleSendMessageStep(s, f, t)
  ELSE IF f.op = "getRooms" THEN handleGetRoomsStep(s, f, t)
  ELSE IF f.op = "getRoom" THEN handleGetRoomStep(s, f, t)
  ELSE IF f.op = "createRoom" THEN handleCreateRoomStep(s, f, t, r)
  ELSE IF f.op = "joinRoom" THEN handleJoinRoomStep(s, f, t)
  ELSE IF f.op = "leaveRoom" THEN handleLeaveRoomStep(s, f, t)
  ELSE IF f.op = "createUser" THEN handleCreateUserStep(s, f, t, n)
  ELSE IF f.op = "generateToken" THEN handleGenerateTokenStep(s, f, t, n)
  ELSE IF f.op = "refreshToken" THEN handleRefreshTokenStep(s, f, t, n)
  ELSE IF f.op = "verifyToken" THEN handleVerifyTokenStep(s, f, t)
  ELSE {}

\* A whole request, run with no other request in between.
RECURSIVE Runs(_, _, _, _, _)
Runs(s, f, t, n, r) ==
  IF f.pc = "done" THEN {[s |-> s, f |-> f]}
  ELSE UNION {Runs(o.s, o.f, t, n, r) : o \in Step(s, f, t, n, r)}


\* ------------------------------------------------------------------------
\* What a caller observes
\* ------------------------------------------------------------------------
\* validateAuth(username, token, requestId, allowExpired) called on store s
\* at time t: what it returns.
validateAuth(s, t, username, token, allowExpired) ==
  LET o == CHOOSE o \in Runs(s, NewFrame("protected", "va_exists", "done", username, token,
                                         None, allowExpired, None), t, 1, 1) : TRUE
  IN [valid |-> o.f.valid, expired |-> o.f.expired]

\* The statuses handleRefreshToken(username, oldToken) can answer with.
RefreshStatus(s, t, username, oldToken) ==
  {o.f.status : o \in Runs(s, NewFrame("refreshToken", "rt_getUser", "done", username, oldToken,
                                       None, FALSE, None), t, 1, 1)}

\* The statuses handleGetRoom(roomId) can answer with.
GetRoomStatus(s, t, roomId) ==
  {o.f.status : o \in Runs(s, RoomFrame("getRoom", "gr_get", "done", None, None, roomId,
                                        None, <<>>), t, 1, 1)}

\* The ids of the rooms handleGetRooms returns for ?username=name, or for
\* no username parameter when name is None.
getRooms(s, t, name) ==
  LET o == CHOOSE o \in Runs(s, RoomFrame("getRooms", "gs_scan", "done", name, None, None,
                                          None, <<>>), t, 1, 1) : TRUE
  IN o.f.rooms

\* The moment from which no record of the store accepts token for username
\* any more unless a request extends one: the latest expiry of the
\* user-scoped key, the token's mapping and the legacy record.
LiveUntil(s, username, token) ==
  LET a == IF Has(s.userTok, <<username, token>>) THEN s.userTok[<<username, token>>] ELSE 0
      b == IF Has(s.direct, token) /\ toLowerCase(s.direct[token].v) = username
           THEN s.direct[token].exp ELSE 0
      c == IF Has(s.direct, username) /\ s.direct[username].v = token
           THEN s.direct[username].exp ELSE 0
      ab == IF a > b THEN a ELSE b
  IN IF ab > c THEN ab ELSE c

\* ------------------------------------------------------------------------
\* History: what the clients were told, kept to state the claims.
\*   handed     <<username, token>> -> when a response carried token for
\*              username
\*   refreshed  [username, token, at]: refreshToken answered 201 for token
\*   revoked    tokens deleteToken was called on
\*   loggedOut  <<username, token>>: handed before a deleteAllUserTokens
\*              of username began, which has completed
\*   lapsed     handed token -> the moment its records expired
\*   just       the request that completed last, if it issued or revoked a
\*              token, left a room that existed (before is the room as the
\*              handler read it), listed the rooms, or was an authenticated
\*              createRoom or sendMessage, or a joinRoom that succeeded
\*              (with the channels it pushed to, whether a push of it
\*              failed, and the store command of a rate-limit check that
\*              failed), and nothing happened since
\*   ticks      clock ticks so far
\*   started    requests that arrived so far, counted under ConcSpec
\*   sends      sendMessage requests so far
\*   allowed    rate-limit key -> the requests checkRateLimit allowed since
\*              the key was last created
\*   reached    short burst key -> the sendMessage requests that
\*              incremented it since it was last created
\*   passed     short burst key -> those of them that went on past the
\*              short-window check
\*   marked     <<roomId, username>> -> when joinRoom last marked the user
\*              present in the room or sendMessage last extended that,
\*              unless a leaveRoom removed the mark since
\* ------------------------------------------------------------------------
Nothing ==
  [what |-> "nothing", username |-> None, token |-> None, room |-> None,
   before |-> NoRoom, rooms |-> {}, status |-> 0, type |-> None, name |-> <<>>,
   content |-> <<>>, pushed |-> {}, pushFailed |-> FALSE, out |-> None,
   failedAt |-> None]

EmptyHist ==
  [handed |-> Empty, refreshed |-> {}, revoked |-> {}, loggedOut |-> {},
   lapsed |-> Empty, just |-> Nothing, ticks |-> 0, started |-> 0, sends |-> 0,
   allowed |-> Empty, reached |-> Empty, passed |-> Empty, marked |-> Empty]

\* One more in the count of key k, or the first of a new count when the
\* command created the key.
Counted(m, k, created, n) ==
  IF created \/ ~Has(m, k) THEN Put(m, k, n) ELSE [m EXCEPT ![k] = @ + n]

\* What a store command of a rate-limit check adds to the history: f is the
\* frame before the command, o its outcome on store s.
Observe(h, s, f, o) ==
  IF f.pc \in {"rl_set", "rl_incr"} /\ o.f.allowed /\ o.f.failedAt = None
  THEN LET k == RateKey(f)
       IN [h EXCEPT !.allowed = Counted(@, k, ~Has(s.rate, k), 1)]
  ELSE IF f.pc = "sm_incrShort" /\ o.f.failedAt = None
  THEN LET k == ShortKey(f.roomId, toLowerCase(f.username))
           created == ~Has(s.burst, k)
       IN [h EXCEPT !.reached = Counted(@, k, created, 1),
                    !.passed = Counted(@, k, created, IF o.f.status = 429 THEN 0 ELSE 1)]
  ELSE IF f.pc = "jr_setPresence"
  THEN [h EXCEPT !.marked = Put(@, <<f.roomId, toLowerCase(f.username)>>, now)]
  ELSE IF f.pc = "lr_del"
  THEN [h EXCEPT !.marked = Del(@, <<f.roomId, toLowerCase(f.username)>>)]
  ELSE IF f.pc = "rp_expire" /\ o.f.extended
  THEN [h EXCEPT !.marked = Put(@, <<f.roomId, toLowerCase(f.username)>>, now)]
  ELSE h

Issued(f) ==
  /\ f.op \in {"createUser", "generateToken", "refreshToken"}
  /\ f.status \in {200, 201}

Record(h, f, t) ==
  LET u == IF f.username = None THEN None ELSE toLowerCase(f.username)
      h2 == IF Issued(f) THEN [h EXCEPT !.handed = Put(@, <<u, f.out>>, t)] ELSE h
      h3 == IF f.op = "refreshToken" /\ f.status = 201
            THEN [h2 EXCEPT !.refreshed = @ \cup {[username |-> u, token |-> f.token, at |-> t]}]
            ELSE h2
      h4 == IF f.op = "deleteToken" THEN [h3 EXCEPT !.revoked = @ \cup {f.token}] ELSE h3
      h5 == IF f.op = "deleteAllUserTokens"
            THEN [h4 EXCEPT !.loggedOut = @ \cup {<<u, k>> : k \in f.known}]
            ELSE h4
  IN [h5 EXCEPT !.sends = IF f.op = "sendMessage" THEN @ + 1 ELSE @, !.just =
        IF Issued(f) /\ f.op # "refreshToken" /\ f.status = 201
        THEN [Nothing EXCEPT !.what = "issued", !.username = u, !.token = f.out,
                             !.status = f.status, !.failedAt = f.failedAt]
        ELSE IF f.op = "deleteToken" /\ f.known # {}
        THEN [Nothing EXCEPT !.what = "revoked", !.username = CHOOSE k \in f.known : TRUE,
                             !.token = f.token]
        ELSE IF f.op = "leaveRoom" /\ (f.status = 200 \/ f.pushFailed)
        THEN [Nothing EXCEPT !.what = "left", !.username = u, !.room = f.roomId,
                             !.before = f.roomObj, !.status = f.status,
                             !.pushed = f.pushed, !.pushFailed = f.pushFailed]
        ELSE IF f.op = "createRoom" /\ f.valid
        THEN [Nothing EXCEPT !.what = "createRoom", !.username = u, !.room = f.newRoom,
                             !.status = f.status, !.type = f.type, !.name = f.name,
                             !.pushed = f.pushed, !.pushFailed = f.pushFailed]
        ELSE IF f.op = "sendMessage" /\ f.valid
        THEN [Nothing EXCEPT !.what = "send", !.username = u, !.room = f.roomId,
                             !.status = f.status, !.content = f.content, !.out = f.out,
                             !.before = f.roomObj, !.failedAt = f.failedAt,
                             !.pushed = f.pushed, !.pushFailed = f.pushFailed]
        ELSE IF f.op = "joinRoom" /\ (f.status = 200 \/ f.pushFailed)
        THEN [Nothing EXCEPT !.what = "joined", !.username = u, !.room = f.roomId,
                             !.status = f.status,
                             !.pushed = f.pushed, !.pushFailed = f.pushFailed]
        ELSE IF f.op = "getRooms"
        THEN [Nothing EXCEPT !.what = "listed", !.username = f.username, !.rooms = f.rooms]
        ELSE IF f.failedAt # None
        THEN [Nothing EXCEPT !.what = "failedOpen", !.username = u, !.status = f.status,
                             !.failedAt = f.failedAt]
        ELSE Nothing]

\* The token was refreshed or revoked itself, or its user logged out everywhere.
Retired(h, username, token) ==
  \/ \E r \in h.refreshed : r.username = username /\ r.token = token
  \/ token \in h.revoked
  \/ <<username, token>> \in h.loggedOut

\* Strings a client can present as a token: the ones it was handed, or junk.
Presentable == {p[2] : p \in DOMAIN hist.handed} \cup {Junk}

TokensOf(h, username) == {p[2] : p \in {q \in DOMAIN h.handed : q[1] = username}}

\* ------------------------------------------------------------------------
\* Spec: one request at a time
\* ------------------------------------------------------------------------
\* The client's useTokenRefresh hook after its first render without a
\* username and a token: the effect has cleared nothing and returned before
\* performTokenCheck, leaving no cleanup function.  checks counts the
\* checkAndRefreshTokenIfNeeded calls that have not settled, timers the
\* intervals that setInterval started and clearInterval has not stopped.
Mounted ==
  [username |-> None, authToken |-> None,
   intervalRef |-> None, isCheckingRef |-> FALSE, cleanup |-> FALSE,
   checks |-> 0, timers |-> 0, started |-> 0, changes |-> 0]

Init ==
  /\ redis = EmptyStore
  /\ now = 0
  /\ nextTok = 1
  /\ nextRoom = 1
  /\ inflight = [r \in 1..MaxInFlight |-> Idle]
  /\ hist = EmptyHist
  /\ hook = Mounted

Commit(f) ==
  \E o \in Runs(redis, f, now, nextTok, nextRoom) :
    /\ redis' = o.s
    /\ nextTok' = IF o.f.newToken # None THEN nextTok + 1 ELSE nextTok
    /\ nextRoom' = IF o.f.newRoom # None THEN nextRoom + 1 ELSE nextRoom
    /\ hist' = Record(hist, o.f, now)
    /\ UNCHANGED <<now, inflight, hook>>

\* A new account is signed up with the first password or with none; a later
\* request for the same name may carry either password.
CreateUser(names) ==
  \E name \in names :
    \E password \in (IF toLowerCase(name) \in redis.users THEN Passwords ELSE SignupPasswords)
                      \cup {None} :
      /\ nextTok <= MaxTokens
      /\ Commit(NewFrame("createUser", "cu_setnx", "done", name, None, password, FALSE, None))

GenerateToken(names) ==
  \E name \in names, token \in Presentable :
    /\ nextTok <= MaxTokens
    /\ Commit(NewFrame("generateToken", "va_exists", "gt_getUser", name, token, None, FALSE, None))

RefreshToken(names) ==
  \E name \in names, oldToken \in Presentable :
    /\ nextTok <= MaxTokens
    /\ Commit(NewFrame("refreshToken", "rt_getUser", "done", name, oldToken, None, FALSE, None))

VerifyToken ==
  \E token \in Presentable :
    Commit(NewFrame("verifyToken", "vt_getDirect", "done", None, token, None, FALSE, None))

\* The authentication of any other protected action.
ValidateAuth(names) ==
  \E name \in names, token \in Presentable :
    Commit(NewFrame("protected", "va_exists", "done", name, token, None, FALSE, None))

\* deleteToken(token); the frame notes for whom the token was accepted.
DeleteToken ==
  \E token \in Presentable :
    Commit([NewFrame("deleteToken", "dt_get", "done", None, token, None, FALSE, None)
              EXCEPT !.known = {u \in Usernames : validateAuth(redis, now, u, token, FALSE).valid}])

\* deleteAllUserTokens(username); the frame notes the tokens handed so far.
DeleteAllUserTokens(names) ==
  \E name \in names :
    Commit([NewFrame("deleteAllUserTokens", "da_scanUser", "done", name, None, None, FALSE, None)
              EXCEPT !.known = TokensOf(hist, toLowerCase(name))])

Next ==
  \/ CreateUser(Names)
  \/ GenerateToken(Names)
  \/ RefreshToken(Names)
  \/ VerifyToken
  \/ ValidateAuth(Names)
  \/ DeleteToken
  \/ DeleteAllUserTokens(Names)

Spec == Init /\ [][Next]_vars

\* ------------------------------------------------------------------------
\* TimedSpec: one user's requests, one at a time, and the clock
\* ------------------------------------------------------------------------
TickLengths == {ShortTick, TOKEN_GRACE_PERIOD}

\* Time passes; the store drops the keys whose TTL has run out.  A handed
\* token that was accepted before and is not after has lapsed, at the
\* moment its last record expired.
TickBy(lengths, maxTicks) ==
  \E d \in lengths :
    /\ hist.ticks < maxTicks
    /\ now' = now + d
    /\ redis' = Purge(redis, now')
    /\ hist' = [hist EXCEPT
          !.ticks = @ + 1,
          !.just = Nothing,
          !.lapsed = [p \in DOMAIN @ \cup
                            {q \in DOMAIN hist.handed :
                               /\ validateAuth(redis, now, q[1], q[2], FALSE).valid
                               /\ ~validateAuth(redis', now', q[1], q[2], FALSE).valid} |->
                        IF p \in DOMAIN @ THEN @[p] ELSE LiveUntil(redis, p[1], p[2])]]
    /\ UNCHANGED <<nextTok, nextRoom, inflight, hook>>

Tick == TickBy(TickLengths, MaxTicks)

TimedNext ==
  \/ CreateUser(TimedNames)
  \/ GenerateToken(TimedNames)
  \/ RefreshToken(TimedNames)
  \/ VerifyToken
  \/ ValidateAuth(TimedNames)
  \/ DeleteToken
  \/ DeleteAllUserTokens(TimedNames)
  \/ Tick

TimedSpec == Init /\ [][TimedNext]_vars


\* ------------------------------------------------------------------------
\* RoomSpec: sign-ups and the requests about rooms, one at a time, and the
\* clock
\* ------------------------------------------------------------------------
RoomTypes == {"public", "private"}

\* The room ids handed out so far: what a client can name.
KnownRooms == {RoomIds[i] : i \in 1..(nextRoom - 1)}

SignUp ==
  \E name \in RoomNames :
    /\ nextTok <= RoomMaxTokens
    /\ Commit(NewFrame("createUser", "cu_setnx", "done", name, None, None, FALSE, None))

\* The bodies of createRoom: a public room with a name or none, a private
\* room with its members.
CreateRoomBodies ==
  {[type |-> "public", name |-> n, members |-> <<>>] : n \in RoomTitles}
    \cup {[type |-> "private", name |-> <<>>, members |-> m] : m \in MemberLists}

CreateRoom ==
  \E name \in RoomNames, token \in Presentable, b \in CreateRoomBodies :
    /\ nextRoom <= MaxRooms
    /\ Commit([RoomFrame("createRoom", "va_exists", "cr_set", name, token, None,
                          b.type, b.members) EXCEPT !.name = b.name])

JoinRoom ==
  \E name \in RoomNames, roomId \in KnownRooms :
    Commit(RoomFrame("joinRoom", "jr_get", "done", name, None, roomId, None, <<>>))

LeaveRoom ==
  \E name \in RoomNames, roomId \in KnownRooms :
    Commit(RoomFrame("leaveRoom", "lr_get", "done", name, None, roomId, None, <<>>))

GetRoom ==
  \E roomId \in KnownRooms :
    Commit(RoomFrame("getRoom", "gr_get", "done", None, None, roomId, None, <<>>))

GetRooms ==
  \E name \in RoomNames \cup {None} :
    Commit(RoomFrame("getRooms", "gs_scan", "done", name, None, None, None, <<>>))

\* A tick as long as a presence record lives.
RoomTick == TickBy({ROOM_PRESENCE_TTL_SECONDS}, MaxRoomTicks)

RoomNext ==
  \/ SignUp
  \/ CreateRoom
  \/ JoinRoom
  \/ LeaveRoom
  \/ GetRoom
  \/ GetRooms
  \/ RoomTick

RoomSpec == Init /\ [][RoomNext]_vars

\* ------------------------------------------------------------------------
\* ChatSpec: one sign-up, one room, joins, leaves and messages, one request
\* at a time, and a clock that moves by the minimum interval between two
\* messages or by the short burst window
\* ------------------------------------------------------------------------
ChatNames == {"ryo", "bob"}

\* Contents of a message: none, a letter, and a character to escape.
Contents == {<<>>, <<"a">>, <<"<">>}

ChatBodies ==
  {[type |-> "public", name |-> <<"general">>, members |-> <<>>],
   [type |-> "private", name |-> <<>>, members |-> <<"bob">>]}

\* A sendMessage request, from POST's authentication on.
SendFrame(name, token, roomId, content, faulty) ==
  [RoomFrame("sendMessage", "va_exists", "sm_validate", name, token, roomId, None, <<>>)
     EXCEPT !.content = content, !.faulty = faulty]

ChatSignUp ==
  \E name \in ChatNames :
    /\ nextTok <= ChatMaxTokens
    /\ Commit(NewFrame("createUser", "cu_setnx", "done", name, None, None, FALSE, None))

ChatCreateRoom ==
  \E name \in ChatNames, token \in Presentable, b \in ChatBodies :
    /\ nextRoom <= ChatMaxRooms
    /\ Commit([RoomFrame("createRoom", "va_exists", "cr_set", name, token, None,
                          b.type, b.members) EXCEPT !.name = b.name])

ChatJoinRoom ==
  \E name \in ChatNames, roomId \in KnownRooms :
    Commit(RoomFrame("joinRoom", "jr_get", "done", name, None, roomId, None, <<>>))

ChatLeaveRoom ==
  \E name \in ChatNames, roomId \in KnownRooms :
    Commit(RoomFrame("leaveRoom", "lr_get", "done", name, None, roomId, None, <<>>))

SendMessage ==
  \E name \in ChatNames, token \in Presentable, roomId \in KnownRooms, content \in Contents :
    /\ hist.sends < MaxSends
    /\ Commit(SendFrame(name, token, roomId, content, FALSE))

ChatTick == TickBy({CHAT_MIN_INTERVAL_SECONDS, CHAT_BURST_SHORT_WINDOW_SECONDS}, MaxChatTicks)

ChatNext ==
  \/ ChatSignUp
  \/ ChatCreateRoom
  \/ ChatJoinRoom
  \/ ChatLeaveRoom
  \/ SendMessage
  \/ ChatTick

ChatSpec == Init /\ [][ChatNext]_vars

\* ------------------------------------------------------------------------
\* ConcSpec: the requests of one user, their store commands interleaved
\* ------------------------------------------------------------------------
ConcNames == {"amy"}

\* Requests in flight that have still to draw their token.
Drawing ==
  {i \in 1..MaxInFlight :
     /\ inflight[i].op \in {"createUser", "generateToken", "refreshToken"}
     /\ inflight[i].newToken = None}

\* The request in slot i runs its next store command; with its response the
\* slot is free again and the history knows what the client was told.
AdvanceTo(i, f, h, outcomes) ==
  \E o \in outcomes :
    /\ redis' = o.s
    /\ nextTok' = IF o.f.newToken # f.newToken THEN nextTok + 1 ELSE nextTok
    /\ nextRoom' = IF o.f.newRoom # f.newRoom THEN nextRoom + 1 ELSE nextRoom
    /\ IF o.f.pc = "done"
       THEN /\ hist' = Record(Observe(h, redis, f, o), o.f, now)
            /\ inflight' = [inflight EXCEPT ![i] = Idle]
       ELSE /\ hist' = Observe(h, redis, f, o)
            /\ inflight' = [inflight EXCEPT ![i] = o.f]
    /\ UNCHANGED <<now, hook>>

Advance(i, f, h) == AdvanceTo(i, f, h, Step(redis, f, now, nextTok, nextRoom))

\* A request arrives and runs its first store command, unless max requests
\* have arrived.
ArriveWithin(f, max) ==
  \E i \in 1..MaxInFlight :
    /\ inflight[i].op = "idle"
    /\ \A j \in 1..(i - 1) : inflight[j].op # "idle"
    /\ hist.started < max
    /\ Advance(i, f, [hist EXCEPT !.started = @ + 1])

Arrive(f) == ArriveWithin(f, MaxRequests)

CanDraw == nextTok + Cardinality(Drawing) <= ConcMaxTokens

ConcCreateUser ==
  \E name \in ConcNames :
    /\ CanDraw
    /\ Arrive(NewFrame("createUser", "cu_setnx", "done", name, None, None, FALSE, None))

ConcGenerateToken ==
  \E name \in ConcNames, token \in Presentable :
    /\ CanDraw
    /\ Arrive(NewFrame("generateToken", "va_exists", "gt_getUser", name, token, None, FALSE, None))

ConcRefreshToken ==
  \E name \in ConcNames, oldToken \in Presentable :
    /\ CanDraw
    /\ Arrive(NewFrame("refreshToken", "rt_getUser", "done", name, oldToken, None, FALSE, None))

ConcVerifyToken ==
  \E token \in Presentable :
    Arrive(NewFrame("verifyToken", "vt_getDirect", "done", None, token, None, FALSE, None))

ConcValidateAuth ==
  \E name \in ConcNames, token \in Presentable :
    Arrive(NewFrame("protected", "va_exists", "done", name, token, None, FALSE, None))

ConcDeleteToken ==
  \E token \in Presentable :
    Arrive([NewFrame("deleteToken", "dt_get", "done", None, token, None, FALSE, None)
              EXCEPT !.known = {u \in Usernames : validateAuth(redis, now, u, token, FALSE).valid}])

ConcDeleteAllUserTokens ==
  \E name \in ConcNames :
    Arrive([NewFrame("deleteAllUserTokens", "da_scanUser", "done", name, None, None, FALSE, None)
              EXCEPT !.known = TokensOf(hist, toLowerCase(name))])

\* A request in flight runs its next store command.
Continue ==
  \E i \in 1..MaxInFlight :
    /\ inflight[i].op # "idle"
    /\ Advance(i, inflight[i], hist)

ConcNext ==
  \/ ConcCreateUser
  \/ ConcGenerateToken
  \/ ConcRefreshToken
  \/ ConcVerifyToken
  \/ ConcValidateAuth
  \/ ConcDeleteToken
  \/ ConcDeleteAllUserTokens
  \/ Continue

ConcSpec == Init /\ [][ConcNext]_vars

\* ------------------------------------------------------------------------
\* Claims
\* ------------------------------------------------------------------------
Strings == AllTokens \cup {Junk} \cup Usernames

Accepted(username, token, allowExpired) ==
  validateAuth(redis, now, username, token, allowExpired).valid

\* C1: right after generateToken or the 201 branch of createUser has handed
\* token t to user U, validateAuth(U, t) is valid; and for a user U with a
\* User record validateAuth(U, s) is invalid for every string s no response
\* ever carried for U.
Inv_C1_IssuedTokenValidOthersNot ==
  /\ hist.just.what = "issued" => Accepted(hist.just.username, hist.just.token, FALSE)
  /\ \A u \in redis.users, str \in Strings, allowExpired \in BOOLEAN :
       <<u, str>> \notin DOMAIN hist.handed => ~Accepted(u, str, allowExpired)

\* C1's case: a token was just issued to a user while another user holds a
\* token of their own.
Witness_C1 ==
  /\ hist.just.what = "issued"
  /\ Accepted(hist.just.username, hist.just.token, FALSE)
  /\ \E p \in DOMAIN hist.handed :
       /\ p[1] # hist.just.username
       /\ Accepted(p[1], p[2], FALSE)
       /\ hist.just.username \in redis.users

\* C3 as claimed: from the 201 of refreshToken(U, old) until
\* TOKEN_GRACE_PERIOD later, validateAuth(U, old, allowExpired = true) is
\* valid with expired = true, whatever other token requests of U come in
\* between, unless deleteAllUserTokens(U) ran.
Claim_C3_RefreshedTokenInGrace ==
  \A r \in hist.refreshed :
    (<<r.username, r.token>> \notin hist.loggedOut /\ now < r.at + TOKEN_GRACE_PERIOD)
      => validateAuth(redis, now, r.username, r.token, TRUE) = [valid |-> TRUE, expired |-> TRUE]

\* C4 as claimed: a token a response carried for U is accepted by
\* validateAuth(U, t) as long as its TTL has not lapsed (which it has not
\* before USER_EXPIRATION_TIME after the response; validations only extend
\* it) and it was not itself refreshed or revoked.
Claim_C4_OtherTokensLeaveItValid ==
  \A p \in DOMAIN hist.handed :
    (~Retired(hist, p[1], p[2]) /\ now < hist.handed[p] + USER_EXPIRATION_TIME)
      => Accepted(p[1], p[2], FALSE)

\* C5 as claimed: right after deleteToken(t) for a token t that
\* validateAuth(U, t) accepted, with one request at a time,
\* validateAuth(U, t, allowExpired = false) is invalid.
Claim_C5_RevokedTokenInvalid ==
  hist.just.what = "revoked" => ~Accepted(hist.just.username, hist.just.token, FALSE)

\* C7 as claimed: a token of U that stopped being accepted because its TTL
\* lapsed, never refreshed or revoked, is exchanged by refreshToken(U, t) at
\* every time within TOKEN_GRACE_PERIOD of the moment it expired.
Claim_C7_LapsedTokenRefreshable ==
  \A p \in DOMAIN hist.lapsed :
    (~Retired(hist, p[1], p[2]) /\ now < hist.lapsed[p] + TOKEN_GRACE_PERIOD)
      => RefreshStatus(redis, now, p[1], p[2]) = {201}

\* C8: no string is accepted as a token for two usernames, whatever
\* allowExpired is for either.
Inv_C8_TokenBoundToOneUser ==
  \A str \in Strings, u1 \in Usernames, u2 \in Usernames :
    \A ae1 \in BOOLEAN, ae2 \in BOOLEAN :
      (u1 # u2 /\ Accepted(u1, str, ae1)) => ~Accepted(u2, str, ae2)

\* C8's case: two users each hold an accepted token, one of them only
\* within the grace period.
Witness_C8 ==
  \E p \in DOMAIN hist.handed, q \in DOMAIN hist.handed :
    /\ p[1] # q[1]
    /\ Accepted(p[1], p[2], FALSE)
    /\ ~Accepted(q[1], q[2], FALSE) /\ Accepted(q[1], q[2], TRUE)


\* C2 as claimed: once refreshToken(U, old) has answered 201,
\* validateAuth(U, old, allowExpired = false) is invalid in every later
\* state, whatever requests presenting old ran alongside the refresh.
Claim_C2_RefreshedTokenStaysInvalid ==
  \A r \in hist.refreshed : ~Accepted(r.username, r.token, FALSE)

\* C6 as claimed: once deleteAllUserTokens(U) has completed, no token handed
\* to U before it began is accepted, for either allowExpired, whatever
\* validations ran alongside it.
Claim_C6_LoggedOutTokensStayInvalid ==
  \A p \in hist.loggedOut : \A allowExpired \in BOOLEAN : ~Accepted(p[1], p[2], allowExpired)


\* C9 as claimed: after leaveRoom(roomId, m) has answered for a private
\* room that existed and had m among its members, whether or not m's
\* presence record was still there: a room of 2 members is gone and getRoom
\* answers 404; a room of 3 members is still there with exactly the other 2.
Claim_C9_LeaveShrinksOrDeletesRoom ==
  LET j == hist.just IN
  (j.what = "left" /\ j.before.type = "private" /\ j.username \in Range(j.before.members))
    => /\ Len(j.before.members) = 2
            => (~Has(redis.rooms, j.room) /\ GetRoomStatus(redis, now, j.room) = {404})
       /\ Len(j.before.members) = 3
            => /\ Has(redis.rooms, j.room)
               /\ Len(redis.rooms[j.room].members) = 2
               /\ Range(redis.rooms[j.room].members) = Range(j.before.members) \ {j.username}

\* C10: getRooms without a username returns no private room; getRooms with
\* username V returns a private room exactly when V lowercased is among its
\* members; every public room is returned to every viewer; and the response
\* just given is the one described.
Inv_C10_RoomVisibility ==
  /\ \A name \in RoomNames \cup {None} :
       LET listed == getRooms(redis, now, name) IN
       /\ listed \subseteq DOMAIN redis.rooms
       /\ \A id \in DOMAIN redis.rooms :
            LET room == redis.rooms[id] IN
            /\ room.type = "public" => id \in listed
            /\ room.type = "private" =>
                 (id \in listed <=> (name # None /\ toLowerCase(name) \in Range(room.members)))
  /\ hist.just.what = "listed" => hist.just.rooms = getRooms(redis, now, hist.just.username)

\* C10's case: the rooms were just listed for "Amy", who is a member of one
\* private room and not of another.
Witness_C10 ==
  /\ hist.just.what = "listed"
  /\ hist.just.username = "Amy"
  /\ \E id \in hist.just.rooms : redis.rooms[id].type = "private"
  /\ \E id \in DOMAIN redis.rooms : redis.rooms[id].type = "private" /\ id \notin hist.just.rooms

\* ------------------------------------------------------------------------
\* C11 as stated: every authenticated createRoom of type public by a
\* username other than the admin identity is answered 403 and persists no
\* room.  A request without a name is answered 400 before the caller is
\* looked at, so this does not hold.
\* ------------------------------------------------------------------------
Claim_C11_NonAdminAlwaysForbidden ==
  [][LET j == hist'.just
     IN j.what = "createRoom" /\ j.type = "public" /\ j.username # "ryo"
        => j.status = 403 /\ redis'.rooms = redis.rooms]_vars

\* C11: an authenticated createRoom of type public by a username other than
\* the admin identity is answered 403 when it carries a name and 400 when it
\* carries none, and persists no room either way; by the admin identity with
\* a non-empty, profanity-clean name it is answered 201, and the room is
\* persisted and getRoom answers 200 for it.
Claim_C11_PublicRoomCreation ==
  [][LET j == hist'.just
     IN j.what = "createRoom" /\ j.type = "public"
        => /\ j.username # "ryo"
                => /\ j.status = (IF j.name = <<>> THEN 400 ELSE 403)
                   /\ redis'.rooms = redis.rooms
           /\ j.username = "ryo" /\ j.name # <<>> /\ ~isProfane(j.name)
                => /\ j.status = 201
                   /\ Has(redis'.rooms, j.room)
                   /\ redis'.rooms[j.room].type = "public"
                   /\ DOMAIN redis'.rooms = DOMAIN redis.rooms \cup {j.room}
                   /\ GetRoomStatus(redis', now', j.room) = {200}]_vars

\* A user who is not the administrator has just asked for a public room
\* with a clean name and was refused.
Witness_C11 ==
  /\ hist.just.what = "createRoom"
  /\ hist.just.type = "public"
  /\ hist.just.username # "ryo"
  /\ hist.just.name = <<"general">>
  /\ hist.just.status = 403

\* ------------------------------------------------------------------------
\* LimitSpec: createUser requests of one username through POST's rate
\* limit, their store commands interleaved, and a clock that moves by the
\* window of the limit
\* ------------------------------------------------------------------------
LimitCreateUser ==
  \E name \in ConcNames :
    ArriveWithin(NewFrame("createUser", "rl_get", "cu_setnx", name, None, None, FALSE, None),
                 MaxLimitRequests)

LimitTick ==
  /\ TickBy({RATE_LIMIT_WINDOW_SECONDS}, MaxLimitTicks)

LimitNext ==
  \/ LimitCreateUser
  \/ Continue
  \/ LimitTick

LimitSpec == Init /\ [][LimitNext]_vars

\* ------------------------------------------------------------------------
\* FaultSpec: sign-ups through POST's rate limit and messages, one request
\* at a time, with a store whose commands can fail inside the rate-limit
\* checks
\* ------------------------------------------------------------------------
FaultNames == {"ryo"}

FaultyCreateUser ==
  \E name \in FaultNames :
    /\ nextTok <= FaultMaxTokens
    /\ \A k \in DOMAIN redis.rate : redis.rate[k].v < FaultMaxCount
    /\ Commit([NewFrame("createUser", "rl_get", "cu_setnx", name, None, None, FALSE, None)
                 EXCEPT !.faulty = TRUE])

FaultCreateRoom ==
  \E name \in FaultNames, token \in Presentable, b \in ChatBodies :
    /\ nextRoom <= ChatMaxRooms
    /\ Commit([RoomFrame("createRoom", "va_exists", "cr_set", name, token, None,
                          b.type, b.members) EXCEPT !.name = b.name])

FaultySendMessage ==
  \E name \in FaultNames, token \in Presentable, roomId \in KnownRooms, content \in Contents :
    /\ hist.sends < FaultMaxSends
    /\ Commit(SendFrame(name, token, roomId, content, TRUE))

FaultTick == TickBy({CHAT_MIN_INTERVAL_SECONDS}, FaultMaxTicks)

FaultNext ==
  \/ FaultyCreateUser
  \/ FaultCreateRoom
  \/ FaultySendMessage
  \/ FaultTick

FaultSpec == Init /\ [][FaultNext]_vars

\* ------------------------------------------------------------------------
\* C15: a request one of whose rate-limit store commands failed (in
\* checkRateLimit, or in the burst check of sendMessage) is answered neither
\* 429 nor 5xx: it goes on, and gets the answer its handler gives from the
\* step after the check.
\* ------------------------------------------------------------------------
Claim_C15_RateLimitFailsOpen ==
  [][LET j == hist'.just
         afterBurst == [SendFrame(j.username, None, j.room, j.content, FALSE)
                          EXCEPT !.pc = "sm_exists", !.valid = TRUE]
         afterLimit == NewFrame("createUser", "cu_setnx", "done", j.username, None, None,
                                FALSE, None)
         next == IF j.what = "send" THEN afterBurst ELSE afterLimit
     IN j.failedAt # None
        => /\ j.status # 429
           /\ j.status < 500
           /\ j.status \in {o.f.status : o \in Runs(redis, next, now, nextTok, nextRoom)}]_vars

\* A message to a public room has just been stored and answered 201 after
\* the increment of its short-window counter failed.
Witness_C15 ==
  /\ hist.just.what = "send"
  /\ hist.just.failedAt = "sm_incrShort"
  /\ hist.just.status = 201
  /\ hist.just.before.type = "public"

\* ------------------------------------------------------------------------
\* BurstSpec: the administrator signs up and creates a room, one request at
\* a time; then sendMessage requests of the administrator to the room,
\* their store commands interleaved, and a clock that moves by the minimum
\* interval or by the short window, also between two commands of a request
\* ------------------------------------------------------------------------
Quiet == \A i \in 1..MaxInFlight : inflight[i].op = "idle"

BurstSignUp ==
  /\ Quiet
  /\ nextTok <= ChatMaxTokens
  /\ Commit(NewFrame("createUser", "cu_setnx", "done", "ryo", None, None, FALSE, None))

BurstCreateRoom ==
  \E token \in Presentable \ {Junk}, b \in ChatBodies :
    /\ Quiet
    /\ nextRoom <= ChatMaxRooms
    /\ Commit([RoomFrame("createRoom", "va_exists", "cr_set", "ryo", token, None,
                          b.type, b.members) EXCEPT !.name = b.name])

\* The store commands of the burst check.
BurstPcs ==
  {"sm_getRoom", "sm_incrShort", "sm_expireShort", "sm_incrLong", "sm_expireLong",
   "sm_getLast", "sm_setLast"}

\* A request runs on to its next store command among stops, or to its end.
RECURSIVE RunsUntil(_, _, _, _, _, _)
RunsUntil(s, f, t, n, r, stops) ==
  IF f.pc \in stops \cup {"done"} THEN {[s |-> s, f |-> f]}
  ELSE UNION {RunsUntil(o.s, o.f, t, n, r, stops) : o \in Step(s, f, t, n, r)}

\* The commands among stops run one by one, the commands between them in
\* one go.  Under BurstSpec the stops are the commands of the burst check:
\* what a request does before the check (authentication) and after it (the
\* message) reads and writes no key of the check.
Leap(s, f, t, n, r, stops) ==
  IF f.pc \in stops THEN Step(s, f, t, n, r)
  ELSE UNION {RunsUntil(o.s, o.f, t, n, r, stops) : o \in Step(s, f, t, n, r)}

BurstSendMessage ==
  \E token \in Presentable \ {Junk}, roomId \in KnownRooms, i \in 1..MaxInFlight :
    LET f == SendFrame("ryo", token, roomId, <<"a">>, FALSE) IN
    /\ inflight[i].op = "idle"
    /\ \A j \in 1..(i - 1) : inflight[j].op # "idle"
    /\ hist.started < MaxBurstRequests
    /\ AdvanceTo(i, f, [hist EXCEPT !.started = @ + 1],
                 Leap(redis, f, now, nextTok, nextRoom, BurstPcs))

BurstContinue ==
  \E i \in 1..MaxInFlight :
    /\ inflight[i].op # "idle"
    /\ AdvanceTo(i, inflight[i], hist,
                 Leap(redis, inflight[i], now, nextTok, nextRoom, BurstPcs))

BurstTick ==
  TickBy({CHAT_MIN_INTERVAL_SECONDS, CHAT_BURST_SHORT_WINDOW_SECONDS}, MaxBurstTicks)

BurstNext ==
  \/ BurstSignUp
  \/ BurstCreateRoom
  \/ BurstSendMessage
  \/ BurstContinue
  \/ BurstTick

BurstSpec == Init /\ [][BurstNext]_vars

\* ------------------------------------------------------------------------
\* C12: for every short-window counter of a public room and a user, of the
\* requests that incremented it since it was created at most
\* CHAT_BURST_SHORT_LIMIT went on past the short-window check, and every
\* request after the first CHAT_BURST_SHORT_LIMIT is answered 429 by its
\* increment, however the requests interleave; a sendMessage to a private
\* room is never answered 429.
\* ------------------------------------------------------------------------
Claim_C12_ShortBurstLimit ==
  /\ [](/\ \A k \in DOMAIN hist.passed : hist.passed[k] <= CHAT_BURST_SHORT_LIMIT
        /\ hist.just.what = "send" /\ hist.just.before.type = "private"
             => hist.just.status # 429)
  /\ [][\A k \in DOMAIN hist'.reached :
          /\ Has(hist.reached, k) => hist'.reached[k] # hist.reached[k]
          /\ hist'.reached[k] > CHAT_BURST_SHORT_LIMIT
          => /\ hist'.just.what = "send"
             /\ hist'.just.status = 429
             /\ hist'.passed[k] = IF Has(hist.passed, k) THEN hist.passed[k] ELSE 0]_vars

\* The request after the first CHAT_BURST_SHORT_LIMIT of a window has just
\* been answered 429 by the short-window check.
Witness_C12 ==
  /\ hist.just.what = "send"
  /\ hist.just.status = 429
  /\ hist.just.out = "short"
  /\ \E k \in DOMAIN hist.reached :
       /\ hist.reached[k] = CHAT_BURST_SHORT_LIMIT + 1
       /\ hist.passed[k] = CHAT_BURST_SHORT_LIMIT

\* ------------------------------------------------------------------------
\* PresenceSpec: two users sign up and the administrator creates a public
\* room, one request at a time; then joinRoom and leaveRoom requests,
\* interleaved at the store commands that read or write a room or a
\* presence record, and a clock that moves by the life of a presence
\* record, also between two commands of a request
\* ------------------------------------------------------------------------
PresencePcs ==
  RcPcs \cup RpPcs \cup {"jr_get", "jr_setPresence", "jr_setRoom", "lr_get", "lr_del",
                          "lr_members", "lr_delete", "lr_update"}

PresenceSignUp ==
  \E name \in ChatNames :
    /\ Quiet
    /\ nextTok <= PresenceMaxTokens
    /\ Commit(NewFrame("createUser", "cu_setnx", "done", name, None, None, FALSE, None))

PresenceCreateRoom ==
  \E token \in Presentable \ {Junk} :
    /\ Quiet
    /\ nextRoom <= ChatMaxRooms
    /\ Commit([RoomFrame("createRoom", "va_exists", "cr_set", "ryo", token, None,
                          "public", <<>>) EXCEPT !.name = <<"general">>])

\* A request arrives and runs to its first command among PresencePcs, or
\* runs that command.
PresenceArrive(f) ==
  \E i \in 1..MaxInFlight :
    /\ inflight[i].op = "idle"
    /\ \A j \in 1..(i - 1) : inflight[j].op # "idle"
    /\ hist.started < MaxPresenceRequests
    /\ AdvanceTo(i, f, [hist EXCEPT !.started = @ + 1],
                 Leap(redis, f, now, nextTok, nextRoom, PresencePcs))

PresenceJoinRoom ==
  \E name \in ChatNames, roomId \in KnownRooms :
    PresenceArrive(RoomFrame("joinRoom", "jr_get", "done", name, None, roomId, None, <<>>))

PresenceLeaveRoom ==
  \E name \in ChatNames, roomId \in KnownRooms :
    PresenceArrive(RoomFrame("leaveRoom", "lr_get", "done", name, None, roomId, None, <<>>))

PresenceContinue ==
  \E i \in 1..MaxInFlight :
    /\ inflight[i].op # "idle"
    /\ AdvanceTo(i, inflight[i], hist,
                 Leap(redis, inflight[i], now, nextTok, nextRoom, PresencePcs))

PresenceTick == TickBy({ROOM_PRESENCE_TTL_SECONDS}, MaxPresenceTicks)

PresenceNext ==
  \/ PresenceSignUp
  \/ PresenceCreateRoom
  \/ PresenceJoinRoom
  \/ PresenceLeaveRoom
  \/ PresenceContinue
  \/ PresenceTick

PresenceSpec == Init /\ [][PresenceNext]_vars

\* The users the history knows to be present in the room: marked, and the
\* mark not yet ROOM_PRESENCE_TTL_SECONDS old.
MarkedPresent(roomId) ==
  {k[2] : k \in {x \in DOMAIN hist.marked :
                    /\ x[1] = roomId
                    /\ now < hist.marked[x] + ROOM_PRESENCE_TTL_SECONDS}}

\* refreshRoomUserCount(roomId) run on store s at time t: its outcomes.
refreshRoomUserCount(s, t, roomId) ==
  Runs(s, RoomFrame("refreshRoomUserCount", "rc_scan", "done", None, None, roomId, None, <<>>),
       t, 1, 1)

\* ------------------------------------------------------------------------
\* C16: with no request in flight, refreshRoomUserCount(roomId) returns the
\* number of users marked present in the room by a joinRoom that completed
\* (in whatever interleaving) whose mark has neither expired nor been
\* removed, and the store after it is the store before it with that number
\* as the room's userCount.
\* ------------------------------------------------------------------------
Inv_C16_RefreshCountsPresence ==
  Quiet =>
    \A roomId \in KnownRooms :
      \A o \in refreshRoomUserCount(redis, now, roomId) :
        LET n == Cardinality(MarkedPresent(roomId))
        IN /\ o.f.userCount = n
           /\ Has(redis.rooms, roomId) => o.s = [redis EXCEPT !.rooms[roomId].userCount = n]
           /\ ~Has(redis.rooms, roomId) => o.s = redis

\* Two joins of distinct users have completed, interleaved so that the room
\* was left with a userCount that is not 2; no request is in flight.
Witness_C16 ==
  /\ Quiet
  /\ \E roomId \in KnownRooms :
       /\ Cardinality(MarkedPresent(roomId)) = 2
       /\ Has(redis.rooms, roomId)
       /\ redis.rooms[roomId].userCount # 2

\* ------------------------------------------------------------------------
\* RefreshSpec: the administrator signs up, creates a room and joins it,
\* one request at a time; then sendMessage and leaveRoom requests of the
\* administrator, interleaved at the store commands that read or write a
\* room or a presence record, and a clock that moves by the life of a
\* presence record, also between two commands of a request
\* ------------------------------------------------------------------------
RefreshJoinRoom ==
  \E roomId \in KnownRooms :
    /\ Quiet
    /\ ~Has(redis.presence, <<roomId, "ryo">>)
    /\ hist.started < MaxRefreshRequests
    /\ Commit(RoomFrame("joinRoom", "jr_get", "done", "ryo", None, roomId, None, <<>>))

RefreshArrive(f) ==
  \E i \in 1..MaxInFlight :
    /\ inflight[i].op = "idle"
    /\ \A j \in 1..(i - 1) : inflight[j].op # "idle"
    /\ hist.started < MaxRefreshRequests
    /\ AdvanceTo(i, f, [hist EXCEPT !.started = @ + 1],
                 Leap(redis, f, now, nextTok, nextRoom, PresencePcs))

RefreshSendMessage ==
  \E token \in Presentable \ {Junk}, roomId \in KnownRooms, content \in Contents \ {<<>>} :
    RefreshArrive(SendFrame("ryo", token, roomId, content, FALSE))

RefreshLeaveRoom ==
  \E roomId \in KnownRooms :
    RefreshArrive(RoomFrame("leaveRoom", "lr_get", "done", "ryo", None, roomId, None, <<>>))

RefreshTick == TickBy({ROOM_PRESENCE_TTL_SECONDS}, MaxPresenceTicks)

RefreshNext ==
  \/ BurstSignUp
  \/ BurstCreateRoom
  \/ RefreshJoinRoom
  \/ RefreshSendMessage
  \/ RefreshLeaveRoom
  \/ PresenceContinue
  \/ RefreshTick

RefreshSpec == Init /\ [][RefreshNext]_vars

\* ------------------------------------------------------------------------
\* C17: the TTL extension of refreshRoomPresence creates no presence record:
\* when the record does not exist as the extension is applied (it expired,
\* or a leaveRoom removed it, be it after the existence check), it does not
\* exist after.
\* ------------------------------------------------------------------------
Claim_C17_RefreshCreatesNoPresence ==
  [][\A i \in 1..MaxInFlight :
       LET f == inflight[i]
           presenceKey == <<f.roomId, toLowerCase(f.username)>>
       IN f.pc = "rp_expire" /\ inflight'[i] # f /\ ~Has(redis.presence, presenceKey)
          => ~Has(redis'.presence, presenceKey)]_vars

\* A sendMessage found the presence record of its user, the record went
\* away, and the extension has just run and found none.
Witness_C17 ==
  \E i \in 1..MaxInFlight :
    LET f == inflight[i] IN
    /\ f.op = "sendMessage"
    /\ f.pc = "sm_trigger"
    /\ f.exists
    /\ ~f.extended
    /\ ~Has(redis.presence, <<f.roomId, toLowerCase(f.username)>>)

\* ------------------------------------------------------------------------
\* C14: for every key of the sensitive-action limiter, at most
\* RATE_LIMIT_ATTEMPTS requests are allowed between the creation of the key
\* and its expiry RATE_LIMIT_WINDOW_SECONDS later, however the requests
\* interleave.  Two requests that both find no key both set it to 1.
\* ------------------------------------------------------------------------
Inv_C14_AtMostAttemptsPerWindow ==
  \A k \in DOMAIN hist.allowed : hist.allowed[k] <= RATE_LIMIT_ATTEMPTS

\* ------------------------------------------------------------------------
\* C13: an authenticated sendMessage whose sanitised content is the content
\* of the newest message of the room, sent by the same user, is answered
\* 409 and persists nothing; one with another content is not answered as a
\* duplicate.  The handler answers a duplicate with 400, and in a public
\* room with 429 when it follows within the minimum interval.
\* ------------------------------------------------------------------------
Claim_C13_DuplicateAnswered409 ==
  [][LET j == hist'.just
         list == IF Has(redis.messages, j.room) THEN redis.messages[j.room] ELSE <<>>
         repeats == list # <<>> /\ SameMessage(Head(list), j.username, Sanitize(j.content))
     IN j.what = "send" /\ j.content # <<>> /\ Has(redis.rooms, j.room)
        => /\ repeats => j.status = 409 /\ redis'.messages = redis.messages
           /\ ~repeats => j.status # 409 /\ j.out # "duplicate"]_vars

\* ------------------------------------------------------------------------
\* C20: leaveRoom on a room that exists, by a user who has no presence
\* record in it, is answered 200 and leaves the whole store as it was (the
\* room, every presence record, the messages), and pushes nothing.
\* ------------------------------------------------------------------------
Claim_C20_LeaveWithoutPresenceIsNoOp ==
  [][LET j == hist'.just
     IN j.what = "left" /\ ~Has(redis.presence, <<j.room, j.username>>)
        => /\ j.status = 200
           /\ redis' = redis
           /\ j.pushed = {}
           /\ ~j.pushFailed]_vars

\* A user with no presence record in a private room that holds a message
\* has just left it: a leave that removes a presence record of a private
\* room always tries a push.
Witness_C20 ==
  /\ hist.just.what = "left"
  /\ hist.just.before.type = "private"
  /\ hist.just.pushed = {}
  /\ ~hist.just.pushFailed
  /\ hist.just.status = 200
  /\ Has(redis.rooms, hist.just.room)
  /\ Has(redis.messages, hist.just.room)
  /\ \E k \in DOMAIN redis.presence : k[1] = hist.just.room

\* ------------------------------------------------------------------------
\* C18: when a push of createRoom, joinRoom, leaveRoom or sendMessage has
\* failed, the request is still answered with its success status (201, 200,
\* 200, 201) and what it wrote is in the store: the room, the presence
\* record, no presence record, the message at the head of the room's list.
\* ------------------------------------------------------------------------
Inv_C18_PushFailureNotEscalated ==
  LET j == hist.just
      key == <<j.room, j.username>>
  IN j.pushFailed =>
       CASE j.what = "createRoom" -> j.status = 201 /\ Has(redis.rooms, j.room)
         [] j.what = "joined" -> j.status = 200 /\ Has(redis.presence, key)
         [] j.what = "left" -> j.status = 200 /\ ~Has(redis.presence, key)
         [] j.what = "send" ->
              /\ j.status = 201
              /\ Has(redis.messages, j.room)
              /\ SameMessage(Head(redis.messages[j.room]), j.username, Sanitize(j.content))
         [] OTHER -> FALSE

\* A message has just been sent, stored and answered with 201 although its
\* push failed.
Witness_C18 ==
  /\ hist.just.what = "send"
  /\ hist.just.pushFailed
  /\ hist.just.status = 201
  /\ Has(redis.messages, hist.just.room)

\* ------------------------------------------------------------------------
\* SanitizeSpec: the administrator signs up and creates a public room, then sends
\* one message whose content is any text of up to MaxContentLength pieces
\* ------------------------------------------------------------------------
MaxContentLength == 4

MaxSanitizeSends == 1

ContentPieces ==
  {"a", "_"} \cup ProfaneWords \cup Whitespace \cup HtmlSignificant \cup Schemes

RawContents == UNION {[1..n -> ContentPieces] : n \in 0..MaxContentLength}

SanitizeSendMessage ==
  \E token \in Presentable \ {Junk}, roomId \in KnownRooms, content \in RawContents :
    /\ hist.sends < MaxSanitizeSends
    /\ Commit(SendFrame("ryo", token, roomId, content, FALSE))

SanitizeNext ==
  \/ BurstSignUp
  \/ PresenceCreateRoom
  \/ SanitizeSendMessage

SanitizeSpec == Init /\ [][SanitizeNext]_vars

\* Piece i of content lies in a URL span: urlRegex matched at or before i
\* and no whitespace stands between the match and i.
InUrlSpan(content, i) ==
  \E k \in 1..i :
    /\ UrlStartsAt(content, k)
    /\ \A m \in (k + 1)..i : content[m] \notin Whitespace

\* ------------------------------------------------------------------------
\* C19: the content persisted for an accepted message is the raw content
\* with, first, every listed word outside the URL spans replaced by
\* placeholders (and the underscores outside the URL spans dropped by the
\* filter) and, second, each of the five HTML-significant characters
\* replaced by its entity: it holds none of the characters < > " ', the
\* pieces of a URL span are changed by the escaping only, and a URL
\* without HTML-significant characters stands in it unchanged.
\* ------------------------------------------------------------------------
Claim_C19_PersistedContentSanitized ==
  LET j == hist.just IN
  (j.what = "send" /\ j.status = 201) =>
    LET raw == j.content
        kept == Head(redis.messages[j.room]).content
        listed(i) ==
          /\ raw[i] \in ProfaneWords
          /\ (i = 1 \/ raw[i - 1] \notin WordPieces)
          /\ \/ i = Len(raw)
             \/ raw[i + 1] \notin WordPieces \cup Schemes
             \/ UrlStartsAt(raw, i + 1)
        piece(i) ==
          IF InUrlSpan(raw, i) THEN Entity(raw[i])
          ELSE IF raw[i] = "_" THEN ""
          ELSE IF listed(i) THEN Masked
          ELSE Entity(raw[i])
        expected == SelectSeq([i \in 1..Len(raw) |-> piece(i)], LAMBDA ch : ch # "")
    IN /\ kept = expected
       /\ \A k \in 1..Len(kept) : kept[k] \notin {"<", ">", "\"", "'"}
       /\ \A a \in 1..Len(raw) :
            LET b == UrlEnd(raw, a) IN
            /\ UrlStartsAt(raw, a)
            /\ a = 1 \/ ~InUrlSpan(raw, a - 1)
            /\ \A m \in a..b : raw[m] \notin HtmlSignificant
            => \E k \in 1..Len(kept) :
                 /\ k + (b - a) <= Len(kept)
                 /\ SubSeq(kept, k, k + (b - a)) = SubSeq(raw, a, b)

\* An accepted message with a character to escape before a URL that holds
\* a listed word and an underscore.
Witness_C19 ==
  /\ hist.just.what = "send"
  /\ hist.just.status = 201
  /\ hist.just.content = <<"<", "http://", "_", "inappropriate">>
  /\ Head(redis.messages[hist.just.room]).content = <<"&lt;", "http://", "_", "inappropriate">>

\* ------------------------------------------------------------------------
\* PrivateSpec: the administrator signs up and creates a private room with
\* two more members (createRoom marks all three present); then joinRoom and
\* leaveRoom requests, interleaved at the store commands that read or write
\* a room or a presence record
\* ------------------------------------------------------------------------
PrivateCreateRoom ==
  \E token \in Presentable \ {Junk} :
    /\ Quiet
    /\ nextRoom <= ChatMaxRooms
    /\ Commit(RoomFrame("createRoom", "va_exists", "cr_set", "ryo", token, None,
                        "private", <<"bob", "amy">>))

PrivateNext ==
  \/ BurstSignUp
  \/ PrivateCreateRoom
  \/ PresenceJoinRoom
  \/ PresenceLeaveRoom
  \/ PresenceContinue

PrivateSpec == Init /\ [][PrivateNext]_vars

\* ------------------------------------------------------------------------
\* C21: a room that leaveRoom has deleted never exists again: an id that
\* was given to a room and has no room record has none after any step of
\* any request.
\* ------------------------------------------------------------------------
Claim_C21_DeletedRoomStaysDeleted ==
  [][\A roomId \in KnownRooms : ~Has(redis.rooms, roomId) => ~Has(redis'.rooms, roomId)]_vars

\* ------------------------------------------------------------------------
\* LeavesSpec: as PrivateSpec, with leaveRoom requests only, one for a
\* member: the members leave the private room, two at a time
\* ------------------------------------------------------------------------
LeaveOnce ==
  \E name \in ChatNames, roomId \in KnownRooms :
    /\ \A i \in 1..MaxInFlight : inflight[i].username # name
    /\ Has(redis.presence, <<roomId, name>>)
    /\ PresenceArrive(RoomFrame("leaveRoom", "lr_get", "done", name, None, roomId, None, <<>>))

LeavesNext ==
  \/ BurstSignUp
  \/ PrivateCreateRoom
  \/ LeaveOnce
  \/ PresenceContinue

LeavesSpec == Init /\ [][LeavesNext]_vars

\* ------------------------------------------------------------------------
\* C22: when the leaveRoom requests of distinct members of a private room
\* have completed, a room that still exists lists no member whose presence
\* a leave removed, and at least 2 of its members have not left.
\* ------------------------------------------------------------------------
Claim_C22_LeaversUnlistedOrRoomGone ==
  Quiet =>
    \A roomId \in KnownRooms :
      LET present == {k[2] : k \in {x \in DOMAIN redis.presence : x[1] = roomId}}
      IN Has(redis.rooms, roomId) =>
           /\ Range(redis.rooms[roomId].members) \subseteq present
           /\ Cardinality(present) >= 2

\* ------------------------------------------------------------------------
\* C23: with no request in flight, every counter of the sensitive-action
\* limiter and every burst counter in the store has an expiry.
\* ------------------------------------------------------------------------
Claim_C23_CountersHaveExpiry ==
  Quiet =>
    /\ \A k \in DOMAIN redis.rate : redis.rate[k].hasTtl
    /\ \A k \in DOMAIN redis.burst : redis.burst[k].hasTtl

\* ------------------------------------------------------------------------
\* GraceSpec: one user signs up and presents tokens to refreshToken, one
\* request at a time, and the clock moves by ShortTick or by one second
\* less than the grace period
\* ------------------------------------------------------------------------
GraceMaxTokens == 4

GraceSignUp ==
  /\ nextTok = 1
  /\ Commit(NewFrame("createUser", "cu_setnx", "done", "amy", None, None, FALSE, None))

GraceRefreshToken ==
  \E oldToken \in Presentable :
    /\ nextTok <= GraceMaxTokens
    /\ Commit(NewFrame("refreshToken", "rt_getUser", "done", "amy", oldToken, None, FALSE, None))

GraceTick == TickBy({ShortTick, TOKEN_GRACE_PERIOD - 1}, MaxTicks)

GraceNext ==
  \/ GraceSignUp
  \/ GraceRefreshToken
  \/ GraceTick

GraceSpec == Init /\ [][GraceNext]_vars

\* ------------------------------------------------------------------------
\* C24: every refreshToken that succeeds for a token comes less than
\* TOKEN_GRACE_PERIOD after the first refreshToken that replaced the token.
\* ------------------------------------------------------------------------
Claim_C24_GraceWindowBounded ==
  \A first, later \in hist.refreshed :
    first.username = later.username /\ first.token = later.token
      => later.at < first.at + TOKEN_GRACE_PERIOD

MaxSendsRequests == 3

MaxSendsTicks == 1

SendsPcs == BurstPcs \cup {"sm_lrange", "sm_lpush"}

SendsSendMessage ==
  \E token \in Presentable \ {Junk}, roomId \in KnownRooms, content \in Contents \ {<<>>},
     i \in 1..MaxInFlight :
    LET f == SendFrame("ryo", token, roomId, content, FALSE) IN
    /\ inflight[i].op = "idle"
    /\ \A j \in 1..(i - 1) : inflight[j].op # "idle"
    /\ hist.started < MaxSendsRequests
    /\ AdvanceTo(i, f, [hist EXCEPT !.started = @ + 1],
                 Leap(redis, f, now, nextTok, nextRoom, SendsPcs))

SendsContinue ==
  \E i \in 1..MaxInFlight :
    /\ inflight[i].op # "idle"
    /\ AdvanceTo(i, inflight[i], hist,
                 Leap(redis, inflight[i], now, nextTok, nextRoom, SendsPcs))

SendsTick == TickBy({CHAT_MIN_INTERVAL_SECONDS}, MaxSendsTicks)

SendsNext ==
  \/ BurstSignUp
  \/ BurstCreateRoom
  \/ SendsSendMessage
  \/ SendsContinue
  \/ SendsTick

SendsSpec == Init /\ [][SendsNext]_vars

\* ------------------------------------------------------------------------
\* C26: any two messages of one user in the list of a public room were made
\* at least CHAT_MIN_INTERVAL_SECONDS apart.
\* ------------------------------------------------------------------------
Claim_C26_MinIntervalBetweenMessages ==
  \A roomId \in DOMAIN redis.messages :
    LET list == redis.messages[roomId] IN
    Has(redis.rooms, roomId) /\ redis.rooms[roomId].type = "public" =>
      \A i, j \in 1..Len(list) :
        i < j /\ list[i].username = list[j].username
          => \/ list[i].timestamp - list[j].timestamp >= CHAT_MIN_INTERVAL_SECONDS
             \/ list[j].timestamp - list[i].timestamp >= CHAT_MIN_INTERVAL_SECONDS

\* ------------------------------------------------------------------------
\* C27: no list of messages holds two adjacent messages with the same
\* username and the same content.
\* ------------------------------------------------------------------------
Claim_C27_NoAdjacentDuplicates ==
  \A roomId \in DOMAIN redis.messages :
    LET list == redis.messages[roomId] IN
    \A i \in 1..(Len(list) - 1) :
      ~SameMessage(list[i], list[i + 1].username, list[i + 1].content)

\* The number of messages handleGetMessages asks the store for.
MESSAGES_RETURNED == 20

\* handleGetMessages(roomId) on store s: the status and the messages of its
\* response.
handleGetMessages(s, roomId) ==
  IF ~Has(s.rooms, roomId) THEN [status |-> 404, messages |-> <<>>]
  ELSE LET list == IF Has(s.messages, roomId) THEN s.messages[roomId] ELSE <<>>
       IN [status |-> 200,
           messages |-> IF Len(list) > MESSAGES_RETURNED THEN SubSeq(list, 1, MESSAGES_RETURNED)
                        ELSE list]

\* ------------------------------------------------------------------------
\* C29: getMessages(roomId) returns at most MESSAGES_RETURNED messages, the
\* last ones pushed, and their timestamps never increase along the list.
\* ------------------------------------------------------------------------
Claim_C29_NewestFirst ==
  \A roomId \in KnownRooms :
    LET messages == handleGetMessages(redis, roomId).messages IN
    /\ Len(messages) <= MESSAGES_RETURNED
    /\ \A i \in 1..(Len(messages) - 1) : messages[i].timestamp >= messages[i + 1].timestamp

\* ------------------------------------------------------------------------
\* LengthSpec: the administrator signs up and creates a public room, then
\* sends messages whose length is at, or on either side of,
\* MAX_MESSAGE_LENGTH, before or after sanitisation
\* ------------------------------------------------------------------------
MaxLengthSends == 4

\* The character ch, n times.
Run(ch, n) == [i \in 1..n |-> ch]

LongContents ==
  {Run("<", MAX_MESSAGE_LENGTH \div 4), Run("<", MAX_MESSAGE_LENGTH \div 4 + 1),
   Run("a", MAX_MESSAGE_LENGTH), Run("a", MAX_MESSAGE_LENGTH + 1),
   Run("a", MAX_MESSAGE_LENGTH) \o <<"_">>, Run("a", 1), Run("<", 1)}

LengthSendMessage ==
  \E token \in Presentable \ {Junk}, roomId \in KnownRooms, content \in LongContents :
    /\ hist.sends < MaxLengthSends
    /\ Commit(SendFrame("ryo", token, roomId, content, FALSE))

LengthNext ==
  \/ BurstSignUp
  \/ PresenceCreateRoom
  \/ LengthSendMessage

LengthSpec == Init /\ [][LengthNext]_vars

\* ------------------------------------------------------------------------
\* C28: a message is rejected for its length only if its raw content has
\* more than MAX_MESSAGE_LENGTH characters, and a message that is accepted
\* has at most that many.
\* ------------------------------------------------------------------------
Claim_C28_LengthOfRawContent ==
  LET j == hist.just IN
  j.what = "send" =>
    /\ j.out = "length" => Length(j.content) > MAX_MESSAGE_LENGTH
    /\ j.status = 201 => Length(j.content) <= MAX_MESSAGE_LENGTH

\* ------------------------------------------------------------------------
\* C30: with no request in flight and no time passed (so no presence record
\* has expired), the userCount stored in every room is the number of
\* presence records of the room, however the joinRoom and leaveRoom requests
\* were interleaved.
\* ------------------------------------------------------------------------
Claim_C30_UserCountIsPresence ==
  (Quiet /\ hist.ticks = 0) =>
    \A roomId \in KnownRooms :
      Has(redis.rooms, roomId) =>
        redis.rooms[roomId].userCount = Cardinality(getActiveUsersInRoom(redis, roomId))

\* ------------------------------------------------------------------------
\* The rooms-updated events: the channel and the ids of the rooms carried
\* ------------------------------------------------------------------------
getDetailedRooms(s) == {s.rooms[k] : k \in DOMAIN s.rooms}

\* filterRoomsForUser(rooms, username): the public rooms for no username,
\* the public rooms and the private rooms listing the username otherwise.
filterRoomsForUser(rooms, username) ==
  {room \in rooms :
     RoomVisibleTo(room, IF username = None THEN None ELSE toLowerCase(username))}

RoomsUpdated(channel, rooms) == [channel |-> channel, rooms |-> {room.id : room \in rooms}]

\* broadcastRoomsUpdated(): one event on the public channel, and one on
\* the channel "chats-<username>" of every user key of the store.
broadcastRoomsUpdated(s) ==
  LET allRooms == getDetailedRooms(s)
  IN {RoomsUpdated(PublicChannel, filterRoomsForUser(allRooms, None))}
       \cup {RoomsUpdated(UserChannel(username), filterRoomsForUser(allRooms, username)) :
               username \in s.users}

\* broadcastToSpecificUsers(usernames): one event on the channel of each.
broadcastToSpecificUsers(s, usernames) ==
  LET allRooms == getDetailedRooms(s)
  IN {RoomsUpdated(UserChannel(username), filterRoomsForUser(allRooms, username)) :
        username \in usernames}

\* ------------------------------------------------------------------------
\* ChannelSpec: the administrator and a user whose name is "public" sign
\* up, create rooms and leave them, one request at a time
\* ------------------------------------------------------------------------
ChannelMaxTokens == 2

ChannelMaxRooms == 2

ChannelNames == {"ryo", "public"}

ChannelBodies ==
  {[type |-> "public", name |-> <<"general">>, members |-> <<>>],
   [type |-> "private", name |-> <<>>, members |-> <<"public">>]}

ChannelSignUp ==
  \E name \in ChannelNames :
    /\ nextTok <= ChannelMaxTokens
    /\ Commit(NewFrame("createUser", "cu_setnx", "done", name, None, None, FALSE, None))

ChannelCreateRoom ==
  \E token \in Presentable \ {Junk}, b \in ChannelBodies :
    /\ nextRoom <= ChannelMaxRooms
    /\ Commit([RoomFrame("createRoom", "va_exists", "cr_set", "ryo", token, None,
                          b.type, b.members) EXCEPT !.name = b.name])

ChannelLeaveRoom ==
  \E name \in ChannelNames, roomId \in KnownRooms :
    Commit(RoomFrame("leaveRoom", "lr_get", "done", name, None, roomId, None, <<>>))

ChannelNext ==
  \/ ChannelSignUp
  \/ ChannelCreateRoom
  \/ ChannelLeaveRoom

ChannelSpec == Init /\ [][ChannelNext]_vars

\* ------------------------------------------------------------------------
\* C31: in every rooms-updated event, of the full broadcast and of the
\* broadcast to the members of a room, the public channel carries public
\* rooms only, and a private room is carried only on the personal channel
\* of one of its members.
\* ------------------------------------------------------------------------
\* The rooms-updated events of the request that completed last: leaveRoom
\* that deleted a private room pushed to the members it read, createRoom,
\* joinRoom and the other leaveRoom requests pushed the full broadcast.
EventsJustPushed ==
  LET j == hist.just
  IN IF j.pushed = {} THEN {}
     ELSE IF j.what = "left" /\ j.before.type = "private" /\ ~Has(redis.rooms, j.room)
     THEN broadcastToSpecificUsers(redis, Range(j.before.members))
     ELSE IF j.what \in {"createRoom", "joined", "left"}
     THEN broadcastRoomsUpdated(redis)
     ELSE {}

Claim_C31_PrivateRoomsOnMembersChannels ==
  \A e \in EventsJustPushed :
    \A roomId \in e.rooms :
      redis.rooms[roomId].type = "private" =>
        /\ e.channel # PublicChannel
        /\ \E member \in Range(redis.rooms[roomId].members) : e.channel = UserChannel(member)

\* The fan-out of the message the request persisted was attempted: every
\* member's personal channel was pushed to, or the push that failed was the
\* fan-out's (the one to the room channel was delivered).
FanOutAttempted(j) ==
  \/ {UserChannel(member) : member \in Range(j.before.members)} \subseteq j.pushed
  \/ j.pushFailed /\ RoomChannel(j.room) \in j.pushed

\* ------------------------------------------------------------------------
\* C32: for a message accepted in a private room the pushes to the personal
\* channels of the members are attempted, whether the push to the room
\* channel was delivered or failed.
\* ------------------------------------------------------------------------
Claim_C32_FanOutWhateverRoomPush ==
  LET j == hist.just IN
  (j.what = "send" /\ j.status = 201 /\ j.before.type = "private") => FanOutAttempted(j)

\* ------------------------------------------------------------------------
\* RaceSpec: the administrator signs up, creates a private room and sends a
\* message (the user record gets its expiry); a later request renews the
\* token only, the user record expires, and sendMessage requests of the
\* user, their store commands interleaved, are its first contact again.
\* Time passes between requests only.
\* ------------------------------------------------------------------------
RaceMaxRooms == 2

MaxRaceRequests == 3

MaxRaceTicks == 2

RacePcs == {"sm_getUser", "sm_setnxUser", "sm_regetUser"}

RaceCreateRoom ==
  \E token \in Presentable \ {Junk} :
    /\ Quiet
    /\ nextRoom <= RaceMaxRooms
    /\ Commit(RoomFrame("createRoom", "va_exists", "cr_set", "ryo", token, None,
                        "private", <<"bob", "amy">>))

RaceSendMessage ==
  \E token \in Presentable \ {Junk}, roomId \in KnownRooms, content \in Contents \ {<<>>},
     i \in 1..MaxInFlight :
    LET f == SendFrame("ryo", token, roomId, content, FALSE) IN
    /\ inflight[i].op = "idle"
    /\ \A j \in 1..(i - 1) : inflight[j].op # "idle"
    /\ hist.started < MaxRaceRequests
    /\ AdvanceTo(i, f, [hist EXCEPT !.started = @ + 1],
                 Leap(redis, f, now, nextTok, nextRoom, RacePcs))

RaceContinue ==
  \E i \in 1..MaxInFlight :
    /\ inflight[i].op # "idle"
    /\ AdvanceTo(i, inflight[i], hist,
                 Leap(redis, inflight[i], now, nextTok, nextRoom, RacePcs))

RaceTick == Quiet /\ TickBy({ShortTick}, MaxRaceTicks)

RaceNext ==
  \/ BurstSignUp
  \/ RaceCreateRoom
  \/ RaceSendMessage
  \/ RaceContinue
  \/ RaceTick

RaceSpec == Init /\ [][RaceNext]_vars

\* ------------------------------------------------------------------------
\* C33: however the sendMessage requests that are the first contact of a
\* username are interleaved, the request that loses the atomic create finds
\* the record when it reads again, no request is answered 500, and after an
\* accepted message the user has its record.
\* ------------------------------------------------------------------------
Claim_C33_CreationRaceResolved ==
  /\ \A i \in 1..MaxInFlight :
       inflight[i].pc = "sm_regetUser" => GetUser(redis, toLowerCase(inflight[i].username))
  /\ hist.just.what = "send" => hist.just.status \in {201, DUPLICATE_STATUS}
  /\ (hist.just.what = "send" /\ hist.just.status = 201) => hist.just.username \in redis.users

\* A request lost the atomic create to a concurrent one and is about to
\* read the record again.
Witness_C33 == \E i \in 1..MaxInFlight : inflight[i].pc = "sm_regetUser"

\* ------------------------------------------------------------------------
\* PostSpec: POST requests of the protected actions createRoom, sendMessage
\* and generateToken, with any combination of bearer token, X-Username
\* header and username in the body, one request at a time
\* ------------------------------------------------------------------------
PostMaxTokens == 2

MaxPostSends == 2

\* The X-Username header and the username of the body: a name, or none.
PostNames == {"ryo", "bob", None}

\* A POST of a protected action.  Until authentication f.username is the
\* identifier of the rate limit: the body's username, else the header's.
PostFrame(op, pc, entry, xUsername, token, bodyUsername) ==
  [NewFrame(op, pc, "post_auth", IF bodyUsername # None THEN bodyUsername ELSE xUsername,
            token, None, FALSE, None)
     EXCEPT !.xUsername = xUsername, !.bodyUsername = bodyUsername, !.entry = entry]

PostCreateRoomFrames ==
  {[PostFrame("createRoom", "post_auth", "cr_set", xUsername, token, bodyUsername)
      EXCEPT !.type = "public", !.name = <<"general">>] :
     xUsername \in PostNames, token \in Presentable \cup {None}, bodyUsername \in PostNames}

PostSendMessageFrames ==
  {[PostFrame("sendMessage", "post_auth", "sm_validate", xUsername, token, bodyUsername)
      EXCEPT !.roomId = roomId, !.content = <<"a">>] :
     xUsername \in PostNames, token \in Presentable \cup {None},
     bodyUsername \in PostNames \ {None}, roomId \in KnownRooms}

\* generateToken is rate limited before it is authenticated.
PostGenerateTokenFrames ==
  {PostFrame("generateToken", "rl_get", "gt_getUser", xUsername, token, "ryo") :
     xUsername \in PostNames, token \in Presentable \cup {None}}

PostFrames == PostCreateRoomFrames \cup PostSendMessageFrames \cup PostGenerateTokenFrames

PostCreateRoom ==
  \E f \in PostCreateRoomFrames :
    /\ nextRoom <= ChatMaxRooms
    /\ Commit(f)

PostSendMessage ==
  \E f \in PostSendMessageFrames :
    /\ hist.sends < MaxPostSends
    /\ Commit(f)

PostGenerateToken ==
  \E f \in PostGenerateTokenFrames :
    /\ nextTok <= PostMaxTokens
    /\ Commit(f)

PostNext ==
  \/ PresenceSignUp
  \/ PostCreateRoom
  \/ PostSendMessage
  \/ PostGenerateToken

PostSpec == Init /\ [][PostNext]_vars

\* The bearer token validates for the user of the X-Username header, and
\* the body names no other user.
Authenticated(f) ==
  /\ validateAuth(redis, now, f.xUsername, f.token, FALSE).valid
  /\ f.bodyUsername # None => toLowerCase(f.bodyUsername) = toLowerCase(f.xUsername)

\* The room, message, user, presence and token records are the same.
SameRecords(s1, s2) ==
  /\ s1.rooms = s2.rooms /\ s1.messages = s2.messages /\ s1.presence = s2.presence
  /\ s1.users = s2.users /\ s1.userExp = s2.userExp /\ s1.password = s2.password
  /\ s1.direct = s2.direct /\ s1.userTok = s2.userTok /\ s1.last = s2.last

\* ------------------------------------------------------------------------
\* C34: a POST of a protected action that is not authenticated (the token
\* does not validate for the header's username, or the body names another
\* user) never reaches its handler: it is answered 401, or 429 when the
\* rate limit of the action refuses it before the authentication, and no
\* room, message, user, presence or token record changes.
\* ------------------------------------------------------------------------
Claim_C34_UnauthenticatedPostRefused ==
  \A f \in PostFrames :
    ~Authenticated(f) =>
      \A o \in Runs(redis, f, now, nextTok, nextRoom) :
        /\ o.f.status = 401 \/ (o.f.status = 429 /\ f.pc \in RlPcs)
        /\ SameRecords(redis, o.s)

\* C34 as stated: such a request is always answered 401.
Claim_C34_UnauthenticatedPostAnswered401 ==
  \A f \in PostFrames :
    ~Authenticated(f) =>
      \A o \in Runs(redis, f, now, nextTok, nextRoom) :
        /\ o.f.status = 401
        /\ SameRecords(redis, o.s)

\* A room exists, a request can present a token that is valid for the user
\* of its header with another user's name in the body, and the rate limit
\* of generateToken is used up.
Witness_C34 ==
  /\ KnownRooms # {}
  /\ \E f \in PostSendMessageFrames :
       /\ validateAuth(redis, now, f.xUsername, f.token, FALSE).valid
       /\ ~Authenticated(f)
  /\ \E k \in DOMAIN redis.rate : redis.rate[k].v >= RATE_LIMIT_ATTEMPTS

\* ------------------------------------------------------------------------
\* C35: every private room of the store lists at least two distinct
\* usernames as its members, and none of them twice.
\* ------------------------------------------------------------------------
Claim_C35_PrivateRoomsHaveTwoMembers ==
  \A roomId \in DOMAIN redis.rooms :
    LET room == redis.rooms[roomId] IN
    room.type = "private" =>
      /\ Cardinality(Range(room.members)) >= 2
      /\ Cardinality(Range(room.members)) = Len(room.members)

\* ------------------------------------------------------------------------
\* StoreFaultSpec: the administrator signs up, creates a public room and
\* sends messages, one request at a time; for some of the requests the
\* store fails at one of the commands from the duplicate test on
\* ------------------------------------------------------------------------
MaxStoreFaultSends == 3

MaxStoreFaultTicks == 2

StoreFaultFrames ==
  {[SendFrame("ryo", token, roomId, content, FALSE) EXCEPT !.storeFails = storeFails] :
     token \in Presentable \ {Junk}, roomId \in KnownRooms, content \in Contents,
     storeFails \in BOOLEAN}

StoreFaultSendMessage ==
  \E f \in StoreFaultFrames :
    /\ hist.sends < MaxStoreFaultSends
    /\ Commit(f)

StoreFaultTick == TickBy({CHAT_MIN_INTERVAL_SECONDS}, MaxStoreFaultTicks)

StoreFaultNext ==
  \/ BurstSignUp
  \/ PresenceCreateRoom
  \/ StoreFaultSendMessage
  \/ StoreFaultTick

StoreFaultSpec == Init /\ [][StoreFaultNext]_vars

\* ------------------------------------------------------------------------
\* C36: a sendMessage request that is answered anything but 201 leaves the
\* message list of its room as it was, also when a store command fails
\* part-way through the handler.
\* ------------------------------------------------------------------------
Claim_C36_RefusedSendLeavesMessages ==
  \A f \in StoreFaultFrames :
    \A o \in Runs(redis, f, now, nextTok, nextRoom) :
      o.f.status # 201 => o.s.messages = redis.messages

\* ------------------------------------------------------------------------
\* MembersSpec: ryo and bob sign up, ryo creates a private room with amy,
\* and both join rooms and send messages, one request at a time.  No room
\* is left: the members list of a room is the one it was created with.
\* ------------------------------------------------------------------------
MembersCreateRoom ==
  \E token \in Presentable \ {Junk} :
    /\ nextRoom <= ChatMaxRooms
    /\ Commit(RoomFrame("createRoom", "va_exists", "cr_set", "ryo", token, None,
                        "private", <<"amy">>))

MembersNext ==
  \/ PresenceSignUp
  \/ MembersCreateRoom
  \/ ChatJoinRoom
  \/ SendMessage

MembersSpec == Init /\ [][MembersNext]_vars

\* ------------------------------------------------------------------------
\* C37: every presence record and every message of a private room is of a
\* username of the room's members list.
\* ------------------------------------------------------------------------
Claim_C37_PrivateRoomsForMembersOnly ==
  \A roomId \in DOMAIN redis.rooms :
    LET room == redis.rooms[roomId]
        list == IF Has(redis.messages, roomId) THEN redis.messages[roomId] ELSE <<>>
    IN room.type = "private" =>
         /\ getActiveUsersInRoom(redis, roomId) \subseteq Range(room.members)
         /\ \A i \in 1..Len(list) : list[i].username \in Range(room.members)

\* ------------------------------------------------------------------------
\* HookSpec: the useTokenRefresh hook of the client.  The username and the
\* token of the store change, the hourly interval fires, and the calls of
\* checkAndRefreshTokenIfNeeded settle, in any order.
\* ------------------------------------------------------------------------
MaxHookChanges == 3

MaxHookChecks == 4

HookUsernames == {None, "ryo"}

HookTokens == {None, "t1", "t2"}

\* if (intervalRef.current) { clearInterval(intervalRef.current);
\* intervalRef.current = null; }
clearIntervalRef(h) ==
  IF h.intervalRef = None THEN h
  ELSE [h EXCEPT !.timers = @ - 1, !.intervalRef = None]

\* performTokenCheck up to its await: a check in progress skips the call;
\* otherwise isCheckingRef is set and checkAndRefreshTokenIfNeeded called.
performTokenCheck(h) ==
  IF h.isCheckingRef THEN h
  ELSE [h EXCEPT !.isCheckingRef = TRUE, !.checks = @ + 1, !.started = @ + 1]

\* The body of the effect.
effect(h) ==
  LET cleared == clearIntervalRef(h)
  IN IF h.username = None \/ h.authToken = None
     THEN [cleared EXCEPT !.cleanup = FALSE]
     ELSE [performTokenCheck(cleared) EXCEPT
             !.intervalRef = "interval", !.timers = @ + 1, !.cleanup = TRUE]

\* The function the effect returned, when it returned one.
cleanup(h) ==
  IF ~h.cleanup THEN h
  ELSE [clearIntervalRef(h) EXCEPT !.isCheckingRef = FALSE, !.cleanup = FALSE]

\* The username or the token of the store changes: the next render runs the
\* cleanup of the last effect and the effect again.
HookChange ==
  \E username \in HookUsernames, authToken \in HookTokens :
    /\ <<username, authToken>> # <<hook.username, hook.authToken>>
    /\ hook.changes < MaxHookChanges
    /\ hook.started < MaxHookChecks
    /\ hook' = effect([cleanup(hook) EXCEPT !.username = username,
                                            !.authToken = authToken,
                                            !.changes = @ + 1])
    /\ UNCHANGED <<redis, now, nextTok, nextRoom, inflight, hist>>

\* The interval of an effect fires: performTokenCheck("Hourly token check").
HookInterval ==
  /\ hook.timers > 0
  /\ hook.started < MaxHookChecks
  /\ hook' = performTokenCheck(hook)
  /\ UNCHANGED <<redis, now, nextTok, nextRoom, inflight, hist>>

\* A call of checkAndRefreshTokenIfNeeded resolves or rejects: the finally
\* block of its performTokenCheck resets isCheckingRef.
HookSettle ==
  /\ hook.checks > 0
  /\ hook' = [hook EXCEPT !.checks = @ - 1, !.isCheckingRef = FALSE]
  /\ UNCHANGED <<redis, now, nextTok, nextRoom, inflight, hist>>

HookNext ==
  \/ HookChange
  \/ HookInterval
  \/ HookSettle

HookSpec == Init /\ [][HookNext]_vars

\* ------------------------------------------------------------------------
\* C38: at most one call of checkAndRefreshTokenIfNeeded made by
\* useTokenRefresh is in flight at any time, also across the cleanup and
\* the re-run of the effect when the username or the token changes.
\* ------------------------------------------------------------------------
Claim_C38_OneCheckInFlight == hook.checks <= 1

====
